---- MODULE Spec2Model ----
(***************************************************************************)
(* Collaborative drawing canvas: the server's room registry, presence      *)
(* table and operation log (server/rooms.js, server/drawing-state.js), the *)
(* socket.io event handlers of server/server.js, the ordered per-socket    *)
(* channel from the server to each client, the client's operation list     *)
(* (App.jsx) and its stroke in progress and canvas (Canvas.jsx,            *)
(* utils/canvasOperations.js).                                             *)
(*                                                                         *)
(* Date.now() stamps (operation.timestamp, user.joinedAt,                  *)
(* cursor.lastUpdate) are not modelled: no handler reads them back.        *)
(***************************************************************************)
EXTENDS Integers, Sequences, FiniteSets, TLC

\* Connection ids handed out by socket.io, in the order connections arrive.
SocketOrder == <<"s1", "s2">>
Sockets == {SocketOrder[i] : i \in 1..Len(SocketOrder)}

\* Room ids a client may name in join_room.
RoomIds == {"r1", "r2"}

\* `let currentRoom = null`
Null == "null"

\* Bounds of the model: commits and joins the server processes in a run, and
\* messages in flight to one socket.
MaxOps == 3
MaxJoins == 3
MaxChan == 3

\* Joins in the runs that follow the colour counter round the palette.
MaxColorIndex == 17

\* rooms.js: USER_COLORS
USER_COLORS ==
    << "#FF6B6B", "#4ECDC4", "#45B7D1", "#FFA07A", "#98D8C8",
       "#F7DC6F", "#BB8FCE", "#85C1E2", "#F8B739", "#52B788",
       "#FF8FA3", "#6C5CE7", "#00B894", "#FDCB6E", "#E17055" >>

\* Payloads clients send.
Point(px, py) == [x |-> px, y |-> py]

BrushStroke ==
    [points |-> <<Point(0, 0), Point(10, 10)>>, color |-> "#000000",
     width |-> 4, tool |-> "brush"]

EraserStroke ==
    [points |-> <<Point(5, 5)>>, color |-> "#FFFFFF", width |-> 8, tool |-> "eraser"]

Drafts == {BrushStroke, EraserStroke}

\* The stroke each client draws where a run fixes one per client.
DraftOf(s) == IF s = SocketOrder[1] THEN BrushStroke ELSE EraserStroke

\* join_room usernames: none, a name, and one of white space only.
Usernames == {"", "ann", " "}

StartData == {[x |-> 0, y |-> 0, color |-> "#000000", width |-> 4, tool |-> "brush"]}
MoveData == {Point(10, 10)}

\* A draw_start payload that carries a userId field of its own, naming the
\* first connection.
StartDataWithUserId ==
    {[x |-> 0, y |-> 0, color |-> "#000000", width |-> 4, tool |-> "brush",
      userId |-> SocketOrder[1]]}
CursorData == {Point(1, 1), Point(2, 2)}

VARIABLES
    rooms,              \* rooms.js: Map roomId -> {users, operations, cursors}
    colorIndex,         \* rooms.js: let colorIndex
    operationIdCounter, \* drawing-state.js: let operationIdCounter
    status,             \* per socket: "fresh", "open" (connection handler ran), "closed"
    currentRoom,        \* per socket: the connection closure's currentRoom
    sioRooms,           \* per socket: socket.io rooms the socket has joined
    chan,               \* per socket: messages emitted to it and not yet handled, in order
    operations,         \* per socket: App state `operations`
    hasJoined,          \* per socket: App state `hasJoined`
    isDrawing,          \* per socket: Canvas state `isDrawing`
    currentPath,        \* per socket: Canvas state `currentPath`
    canvas,             \* per socket: what is drawn on the <canvas>, in drawing order
    optimizePathCall,   \* canvasOperations.js: the last call of optimizePath and its result
    connected           \* per socket: App state `connected`

\* The server, the channels and the App state.
coreVars == << rooms, colorIndex, operationIdCounter, status, currentRoom,
              sioRooms, chan, operations, hasJoined >>

\* The Canvas component and the path utility of canvasOperations.js.
canvasVars == << isDrawing, currentPath, canvas, optimizePathCall >>

\* What the socket's 'connect' and 'disconnect' handlers may change.
statusVars == << connected >>

vars == << rooms, colorIndex, operationIdCounter, status, currentRoom,
           sioRooms, chan, operations, hasJoined, isDrawing, currentPath, canvas,
           optimizePathCall, connected >>

----------------------------------------------------------------------------
\* rooms.js

EmptyRoom == [users |-> << >>, operations |-> << >>, cursors |-> << >>]

\* rooms.has(roomId)
HasRoom(rs, roomId) == roomId \in DOMAIN rs

\* getRoom: get or create; yields the registry after the call.
getRoom(rs, roomId) ==
    IF HasRoom(rs, roomId) THEN rs ELSE rs @@ (roomId :> EmptyRoom)

\* Map.prototype.set putting a new key ahead of the entries already there.
MapSet_front(m, key, value) ==
    IF \E i \in 1..Len(m) : m[i].key = key
    THEN [i \in 1..Len(m) |-> IF m[i].key = key THEN [key |-> key, value |-> value] ELSE m[i]]
    ELSE <<[key |-> key, value |-> value]>> \o m

\* Map.prototype.set on an insertion-ordered map kept as a sequence of entries.
MapSet(m, key, value) ==
    IF \E i \in 1..Len(m) : m[i].key = key
    THEN [i \in 1..Len(m) |-> IF m[i].key = key THEN [key |-> key, value |-> value] ELSE m[i]]
    ELSE Append(m, [key |-> key, value |-> value])

\* Map.prototype.delete
MapDelete(m, key) == SelectSeq(m, LAMBDA e : e.key # key)

MapHas(m, key) == \E i \in 1..Len(m) : m[i].key = key

MapGet(m, key) == (CHOOSE i \in 1..Len(m) : m[i].key = key)

\* Array.from(map.values())
MapValues(m) == [i \in 1..Len(m) |-> m[i].value]

MapKeys(m) == {m[i].key : i \in 1..Len(m)}

\* `User${n}`
DefaultName(n) == "User" \o ToString(n)

\* addUserToRoom taking the colour by the room's participant count instead of
\* the process-wide counter.
addUserToRoom_perRoom(rs, ci, roomId, socketId, username) ==
    LET rs1 == getRoom(rs, roomId)
        room == rs1[roomId]
        color == USER_COLORS[(Len(room.users) % Len(USER_COLORS)) + 1]
        user == [userId |-> socketId,
                 username |-> IF username # "" THEN username
                              ELSE DefaultName(Len(room.users) + 1),
                 color |-> color]
    IN [rooms |-> [rs1 EXCEPT ![roomId].users = MapSet(@, socketId, user)],
        colorIndex |-> ci + 1,
        user |-> user]

\* addUserToRoom numbering the default name by the process-wide counter.
addUserToRoom_nameByCounter(rs, ci, roomId, socketId, username) ==
    LET rs1 == getRoom(rs, roomId)
        room == rs1[roomId]
        color == USER_COLORS[(ci % Len(USER_COLORS)) + 1]
        user == [userId |-> socketId,
                 username |-> IF username # "" THEN username
                              ELSE DefaultName(ci + 1),
                 color |-> color]
    IN [rooms |-> [rs1 EXCEPT ![roomId].users = MapSet(@, socketId, user)],
        colorIndex |-> ci + 1,
        user |-> user]

\* addUserToRoom: the registry, the counter and the user record after the call.
addUserToRoom(rs, ci, roomId, socketId, username) ==
    LET rs1 == getRoom(rs, roomId)
        room == rs1[roomId]
        color == USER_COLORS[(ci % Len(USER_COLORS)) + 1]
        user == [userId |-> socketId,
                 username |-> IF username # "" THEN username
                              ELSE DefaultName(Len(room.users) + 1),
                 color |-> color]
    IN [rooms |-> [rs1 EXCEPT ![roomId].users = MapSet(@, socketId, user)],
        colorIndex |-> ci + 1,
        user |-> user]

\* What a missing user or operation serialises to.
Absent == << >>

\* removeUserFromRoom without the clean-up of empty rooms.
removeUserFromRoom_keepEmpty(rs, roomId, socketId) ==
    IF ~HasRoom(rs, roomId) THEN [rooms |-> rs, user |-> Absent]
    ELSE
        LET room == rs[roomId]
            user == IF MapHas(room.users, socketId)
                    THEN <<room.users[MapGet(room.users, socketId)].value>>
                    ELSE Absent
            room1 == [room EXCEPT !.users = MapDelete(@, socketId),
                                  !.cursors = MapDelete(@, socketId)]
        IN [rooms |-> [rs EXCEPT ![roomId] = room1], user |-> user]

\* removeUserFromRoom without room.cursors.delete.
removeUserFromRoom_keepCursor(rs, roomId, socketId) ==
    IF ~HasRoom(rs, roomId) THEN [rooms |-> rs, user |-> Absent]
    ELSE
        LET room == rs[roomId]
            user == IF MapHas(room.users, socketId)
                    THEN <<room.users[MapGet(room.users, socketId)].value>>
                    ELSE Absent
            room1 == [room EXCEPT !.users = MapDelete(@, socketId)]
        IN [rooms |-> IF Len(room1.users) = 0
                      THEN [r \in (DOMAIN rs) \ {roomId} |-> rs[r]]
                      ELSE [rs EXCEPT ![roomId] = room1],
            user |-> user]

\* removeUserFromRoom: the registry after the call and the returned user
\* (a sequence holding the user, empty for null/undefined).
removeUserFromRoom(rs, roomId, socketId) ==
    IF ~HasRoom(rs, roomId) THEN [rooms |-> rs, user |-> Absent]
    ELSE
        LET room == rs[roomId]
            user == IF MapHas(room.users, socketId)
                    THEN <<room.users[MapGet(room.users, socketId)].value>>
                    ELSE Absent
            room1 == [room EXCEPT !.users = MapDelete(@, socketId),
                                  !.cursors = MapDelete(@, socketId)]
        IN [rooms |-> IF Len(room1.users) = 0
                      THEN [r \in (DOMAIN rs) \ {roomId} |-> rs[r]]
                      ELSE [rs EXCEPT ![roomId] = room1],
            user |-> user]

\* getRoomUsers
getRoomUsers(rs, roomId) ==
    IF ~HasRoom(rs, roomId) THEN << >> ELSE MapValues(rs[roomId].users)

\* updateCursor
updateCursor(rs, roomId, socketId, x, y) ==
    IF ~HasRoom(rs, roomId) THEN rs
    ELSE [rs EXCEPT ![roomId].cursors = MapSet(@, socketId, [x |-> x, y |-> y])]

----------------------------------------------------------------------------
\* drawing-state.js

\* addOperation with unshift in place of push.
addOperation_unshift(rs, ctr, roomId, userId, operationData) ==
    LET rs1 == getRoom(rs, roomId)
        operation == [id |-> ctr + 1,
                      userId |-> userId,
                      type |-> "draw",
                      points |-> operationData.points,
                      color |-> operationData.color,
                      width |-> operationData.width,
                      tool |-> operationData.tool]
    IN [rooms |-> [rs1 EXCEPT ![roomId].operations = <<operation>> \o @],
        counter |-> ctr + 1,
        operation |-> operation]

\* addOperation numbering by the length of the log in place of the counter.
addOperation_lengthId(rs, ctr, roomId, userId, operationData) ==
    LET rs1 == getRoom(rs, roomId)
        operation == [id |-> Len(rs1[roomId].operations) + 1,
                      userId |-> userId,
                      type |-> "draw",
                      points |-> operationData.points,
                      color |-> operationData.color,
                      width |-> operationData.width,
                      tool |-> operationData.tool]
    IN [rooms |-> [rs1 EXCEPT ![roomId].operations = Append(@, operation)],
        counter |-> ctr + 1,
        operation |-> operation]

\* addOperation keeping the first point of the stroke only.
addOperation_firstPoint(rs, ctr, roomId, userId, operationData) ==
    LET rs1 == getRoom(rs, roomId)
        operation == [id |-> ctr + 1,
                      userId |-> userId,
                      type |-> "draw",
                      points |-> SubSeq(operationData.points, 1, 1),
                      color |-> operationData.color,
                      width |-> operationData.width,
                      tool |-> operationData.tool]
    IN [rooms |-> [rs1 EXCEPT ![roomId].operations = Append(@, operation)],
        counter |-> ctr + 1,
        operation |-> operation]

\* addOperation: the registry, the counter and the operation after the call.
addOperation(rs, ctr, roomId, userId, operationData) ==
    LET rs1 == getRoom(rs, roomId)
        operation == [id |-> ctr + 1,
                      userId |-> userId,
                      type |-> "draw",
                      points |-> operationData.points,
                      color |-> operationData.color,
                      width |-> operationData.width,
                      tool |-> operationData.tool]
    IN [rooms |-> [rs1 EXCEPT ![roomId].operations = Append(@, operation)],
        counter |-> ctr + 1,
        operation |-> operation]

\* undoOperation with shift in place of pop.
undoOperation_shift(rs, roomId) ==
    LET rs1 == getRoom(rs, roomId)
        ops == rs1[roomId].operations
    IN IF Len(ops) = 0
       THEN [rooms |-> rs1, operation |-> Absent]
       ELSE [rooms |-> [rs1 EXCEPT ![roomId].operations = Tail(ops)],
             operation |-> <<ops[1]>>]

\* undoOperation that reads the last operation and leaves it in the log.
undoOperation_peek(rs, roomId) ==
    LET rs1 == getRoom(rs, roomId)
        ops == rs1[roomId].operations
    IN IF Len(ops) = 0
       THEN [rooms |-> rs1, operation |-> Absent]
       ELSE [rooms |-> rs1, operation |-> <<ops[Len(ops)]>>]

\* undoOperation: the registry after the call and the returned operation
\* (a sequence holding it, empty for null).
undoOperation(rs, roomId) ==
    LET rs1 == getRoom(rs, roomId)
        ops == rs1[roomId].operations
    IN IF Len(ops) = 0
       THEN [rooms |-> rs1, operation |-> Absent]
       ELSE [rooms |-> [rs1 EXCEPT ![roomId].operations = SubSeq(ops, 1, Len(ops) - 1)],
             operation |-> <<ops[Len(ops)]>>]

\* getOperations: the registry after the call and the returned history.
getOperations(rs, roomId) ==
    LET rs1 == getRoom(rs, roomId)
    IN [rooms |-> rs1, operations |-> rs1[roomId].operations]

----------------------------------------------------------------------------
\* socket.io emission

\* io.to(room): every connected socket that joined the socket.io room.
InRoom(sio, roomId) == {t \in Sockets : roomId \in sio[t]}

\* Emit that puts the message ahead of what is already in flight.
Emit_overtaking(ch, to, msg) ==
    [t \in Sockets |-> IF t \in to THEN <<msg>> \o ch[t] ELSE ch[t]]

\* emit msg to each socket of `to`, appended to its ordered channel.
Emit(ch, to, msg) ==
    [t \in Sockets |-> IF t \in to THEN Append(ch[t], msg) ELSE ch[t]]

----------------------------------------------------------------------------
\* utils/canvasOperations.js: the canvas is the sequence of marks drawn on it
\* since it was last cleared.

\* drawStroke: nothing for an empty path; a dot is filled (fillStyle is never
\* set, so with the context's default), a longer path is stroked, an eraser
\* stroke cuts out of what is there.
drawStroke(cv, points, color, width, tool) ==
    IF Len(points) = 0 THEN cv
    ELSE Append(cv, [points |-> points,
                     width |-> width,
                     composite |-> IF tool = "eraser" THEN "destination-out"
                                   ELSE "source-over",
                     paint |-> IF Len(points) = 1 THEN "fill" ELSE "stroke",
                     style |-> IF Len(points) = 1 THEN "#000000"
                               ELSE IF tool = "eraser" THEN "rgba(0,0,0,1)"
                               ELSE color])

RECURSIVE DrawAll(_, _)
\* operations.forEach: every "draw" operation drawn in list order.
DrawAll(cv, ops) ==
    IF Len(ops) = 0 THEN cv
    ELSE LET op == Head(ops)
         IN DrawAll(IF op.type = "draw"
                    THEN drawStroke(cv, op.points, op.color, op.width, op.tool)
                    ELSE cv,
                    Tail(ops))

\* redrawCanvas without the clearRect.
redrawCanvas_noClear(cv, ops) == DrawAll(cv, ops)

\* redrawCanvas: clearRect over the size the canvas was given, then the
\* operations in order.
redrawCanvas(cv, ops) == DrawAll(<< >>, ops)

\* The effect without the redraw of the current path.
RedrawEffect_noOverlay(cv, ops, drawing, path, tools) == redrawCanvas(cv, ops)

\* Canvas.jsx, the effect on [operations, isDrawing, currentPath, ...]: the
\* operations redrawn, then the current path if a stroke is being drawn.
RedrawEffect(cv, ops, drawing, path, tools) ==
    LET base == redrawCanvas(cv, ops)
    IN IF drawing /\ Len(path) > 0
       THEN drawStroke(base, path, tools.color, tools.width, tools.tool)
       ELSE base

----------------------------------------------------------------------------
\* optimizePath and perpendicularDistance.  Coordinates and tolerances are
\* integers, in tenths of a pixel, and the arithmetic is exact.

Sq(n) == n * n

\* dx * dx + dy * dy of a line, 1 for a line that is a point.
LineScale(lineStart, lineEnd) ==
    LET den == Sq(lineEnd.x - lineStart.x) + Sq(lineEnd.y - lineStart.y)
    IN IF den = 0 THEN 1 ELSE den

\* perpendicularDistance without the clamp of t: the distance to the line
\* through the two points, not to the segment between them.
perpendicularDistance_toLine(point, lineStart, lineEnd) ==
    LET dx == lineEnd.x - lineStart.x
        dy == lineEnd.y - lineStart.y
        den == Sq(dx) + Sq(dy)
        num == (point.x - lineStart.x) * dx + (point.y - lineStart.y) * dy
        toStart == Sq(point.x - lineStart.x) + Sq(point.y - lineStart.y)
    IN IF den = 0 THEN toStart
       ELSE toStart * den - Sq(num)

\* perpendicularDistance, as the square of the distance it returns times
\* LineScale of the line (an integer; for one line the order of these values
\* is the order of the distances).  The projection parameter t is clamped
\* to [0, 1]: the distance is taken to lineStart where num <= 0, to lineEnd
\* where num >= den, and to the foot of the perpendicular in between.
perpendicularDistance(point, lineStart, lineEnd) ==
    LET dx == lineEnd.x - lineStart.x
        dy == lineEnd.y - lineStart.y
        den == Sq(dx) + Sq(dy)
        num == (point.x - lineStart.x) * dx + (point.y - lineStart.y) * dy
        toStart == Sq(point.x - lineStart.x) + Sq(point.y - lineStart.y)
        toEnd == Sq(point.x - lineEnd.x) + Sq(point.y - lineEnd.y)
    IN IF den = 0 THEN toStart
       ELSE IF num <= 0 THEN toStart * den
       ELSE IF num >= den THEN toEnd * den
       ELSE toStart * den - Sq(num)

RECURSIVE FarthestFrom(_, _, _, _)
\* The loop `for (let i = 1; i < end; i++)`, indices from 1 here: the first
\* interior point of maximum distance from the line of the two end points.
FarthestFrom(points, i, maxDistance, maxIndex) ==
    IF i >= Len(points) THEN [maxDistance |-> maxDistance, maxIndex |-> maxIndex]
    ELSE LET distance == perpendicularDistance(points[i], points[1], points[Len(points)])
         IN IF distance > maxDistance
            THEN FarthestFrom(points, i + 1, distance, i)
            ELSE FarthestFrom(points, i + 1, maxDistance, maxIndex)

\* `maxDistance > tolerance` on the scaled squares (tolerance >= 0).
GreaterThanTolerance(maxDistance, tolerance, lineStart, lineEnd) ==
    maxDistance > Sq(tolerance) * LineScale(lineStart, lineEnd)

RECURSIVE optimizePath_keepJunction(_, _)
\* optimizePath joining the two halves without dropping the point they share.
optimizePath_keepJunction(points, tolerance) ==
    IF Len(points) <= 2 THEN points
    ELSE LET far == FarthestFrom(points, 2, 0, 1)
         IN IF GreaterThanTolerance(far.maxDistance, tolerance,
                                    points[1], points[Len(points)])
            THEN optimizePath_keepJunction(SubSeq(points, 1, far.maxIndex), tolerance)
                 \o optimizePath_keepJunction(SubSeq(points, far.maxIndex, Len(points)),
                                              tolerance)
            ELSE <<points[1], points[Len(points)]>>

RECURSIVE optimizePath(_, _)
\* optimizePath (Douglas-Peucker)
optimizePath(points, tolerance) ==
    IF Len(points) <= 2 THEN points
    ELSE LET far == FarthestFrom(points, 2, 0, 1)
         IN IF GreaterThanTolerance(far.maxDistance, tolerance,
                                    points[1], points[Len(points)])
            THEN LET left == optimizePath(SubSeq(points, 1, far.maxIndex), tolerance)
                     right == optimizePath(SubSeq(points, far.maxIndex, Len(points)),
                                           tolerance)
                 IN SubSeq(left, 1, Len(left) - 1) \o right
            ELSE <<points[1], points[Len(points)]>>

Init ==
    /\ rooms = << >>
    /\ colorIndex = 0
    /\ operationIdCounter = 0
    /\ status = [s \in Sockets |-> "fresh"]
    /\ currentRoom = [s \in Sockets |-> Null]
    /\ sioRooms = [s \in Sockets |-> {}]
    /\ chan = [s \in Sockets |-> << >>]
    /\ operations = [s \in Sockets |-> << >>]
    /\ hasJoined = [s \in Sockets |-> FALSE]
    /\ isDrawing = [s \in Sockets |-> FALSE]
    /\ currentPath = [s \in Sockets |-> << >>]
    /\ canvas = [s \in Sockets |-> << >>]
    /\ optimizePathCall = [points |-> << >>, tolerance |-> 20, result |-> << >>]
    /\ connected = [s \in Sockets |-> FALSE]

\* Room left on every channel of `to` for n more messages (the model's bound
\* on messages in flight).
CanEmit(to, n) == \A t \in to : Len(chan[t]) + n <= MaxChan

\* WebSocketService.emit with the listeners of the event called in the client.
EmitConnectionStatus_toListeners(flags, s, data) ==
    [flags EXCEPT ![s] = data.connected]

\* this.emit('connection_status', data) in the socket's 'connect' and
\* 'disconnect' handlers: the `connected` flags of the Apps after the call.
\* WebSocketService.emit is this.socket.emit(event, data): the event is sent
\* to the server (held back by socket.io while the socket is disconnected).
\* server.js has no handler for it and emits no connection_status of its own,
\* so the listener App registered with WebSocketService.on, a listener of the
\* socket, is not called and the flags stay as they are.
EmitConnectionStatus(flags, s, data) == flags

\* io.on('connection'): the next connection id is handed out; on the client
\* the socket's 'connect' handler runs.
Connect(s) ==
    /\ status[s] = "fresh"
    /\ \A i \in 1..Len(SocketOrder) :
          SocketOrder[i] = s => \A j \in 1..(i - 1) : status[SocketOrder[j]] # "fresh"
    /\ status' = [status EXCEPT ![s] = "open"]
    /\ currentRoom' = [currentRoom EXCEPT ![s] = Null]
    /\ UNCHANGED << rooms, colorIndex, operationIdCounter, sioRooms, chan, operations,
                    hasJoined >>
    /\ UNCHANGED canvasVars
    /\ connected' = EmitConnectionStatus(connected, s, [connected |-> TRUE])

\* The join_room handler notifying the room before it answers the joiner.
JoinRoom_notifyFirst(s, roomId, username) ==
    /\ status[s] = "open"
    /\ LET sio1 == [sioRooms EXCEPT ![s] = @ \cup {roomId}]
           a == addUserToRoom(rooms, colorIndex, roomId, s, username)
           g == getOperations(a.rooms, roomId)
           users == getRoomUsers(g.rooms, roomId)
           ch1 == Emit(chan, InRoom(sio1, roomId),
                       [type |-> "user_joined", userId |-> s,
                        user |-> a.user, users |-> users])
           ch2 == Emit(ch1, {s}, [type |-> "full_sync",
                                   operations |-> g.operations,
                                   users |-> users])
       IN /\ CanEmit({s}, 2)
          /\ CanEmit(InRoom(sio1, roomId), 1)
          /\ currentRoom' = [currentRoom EXCEPT ![s] = roomId]
          /\ sioRooms' = sio1
          /\ rooms' = g.rooms
          /\ colorIndex' = a.colorIndex
          /\ chan' = ch2
    /\ hasJoined' = [hasJoined EXCEPT ![s] = TRUE]
    /\ UNCHANGED << operationIdCounter, status, operations >>
    /\ UNCHANGED canvasVars /\ UNCHANGED statusVars

\* The join_room handler without socket.join(roomId): the joiner is listed in
\* the room but not subscribed to its broadcasts.
JoinRoom_notSubscribed(s, roomId, username) ==
    /\ status[s] = "open"
    /\ LET a == addUserToRoom(rooms, colorIndex, roomId, s, username)
           g == getOperations(a.rooms, roomId)
           users == getRoomUsers(g.rooms, roomId)
           ch1 == Emit(chan, {s}, [type |-> "full_sync",
                                   operations |-> g.operations,
                                   users |-> users])
           ch2 == Emit(ch1, InRoom(sioRooms, roomId) \cup {s},
                       [type |-> "user_joined", userId |-> s,
                        user |-> a.user, users |-> users])
       IN /\ CanEmit({s}, 2)
          /\ CanEmit(InRoom(sioRooms, roomId), 1)
          /\ currentRoom' = [currentRoom EXCEPT ![s] = roomId]
          /\ sioRooms' = sioRooms
          /\ rooms' = g.rooms
          /\ colorIndex' = a.colorIndex
          /\ chan' = ch2
    /\ hasJoined' = [hasJoined EXCEPT ![s] = TRUE]
    /\ UNCHANGED << operationIdCounter, status, operations >>
    /\ UNCHANGED canvasVars /\ UNCHANGED statusVars

\* socket.on('join_room')
JoinRoom(s, roomId, username) ==
    /\ status[s] = "open"
    /\ LET sio1 == [sioRooms EXCEPT ![s] = @ \cup {roomId}]
           a == addUserToRoom(rooms, colorIndex, roomId, s, username)
           g == getOperations(a.rooms, roomId)
           users == getRoomUsers(g.rooms, roomId)
           ch1 == Emit(chan, {s}, [type |-> "full_sync",
                                   operations |-> g.operations,
                                   users |-> users])
           ch2 == Emit(ch1, InRoom(sio1, roomId),
                       [type |-> "user_joined", userId |-> s,
                        user |-> a.user, users |-> users])
       IN /\ CanEmit({s}, 2)
          /\ CanEmit(InRoom(sio1, roomId), 1)
          /\ currentRoom' = [currentRoom EXCEPT ![s] = roomId]
          /\ sioRooms' = sio1
          /\ rooms' = g.rooms
          /\ colorIndex' = a.colorIndex
          /\ chan' = ch2
    /\ hasJoined' = [hasJoined EXCEPT ![s] = TRUE]
    /\ UNCHANGED << operationIdCounter, status, operations >>
    /\ UNCHANGED canvasVars /\ UNCHANGED statusVars

\* socket.to(currentRoom).emit(event, {userId: socket.id, ...data}): the fields
\* spread from data come after userId and replace it where data has one.
Relay(s, event, data) ==
    IF currentRoom[s] = Null THEN chan
    ELSE Emit(chan, InRoom(sioRooms, currentRoom[s]) \ {s},
              [type |-> event] @@ data @@ [userId |-> s])

\* The draw_start handler committing the first point as an operation.
DrawStart_commits(s, data) ==
    /\ status[s] = "open"
    /\ currentRoom[s] # Null => CanEmit(InRoom(sioRooms, currentRoom[s]) \ {s}, 1)
    /\ chan' = Relay(s, "draw_start", data)
    /\ rooms' = IF currentRoom[s] = Null THEN rooms
                ELSE addOperation(rooms, operationIdCounter, currentRoom[s], s,
                                  [points |-> <<Point(data.x, data.y)>>,
                                   color |-> data.color, width |-> data.width,
                                   tool |-> data.tool]).rooms
    /\ UNCHANGED << colorIndex, operationIdCounter, status, currentRoom,
                    sioRooms, operations, hasJoined >>

\* socket.on('draw_start').  The three stroke handlers say nothing of the
\* sender's Canvas state: the step that runs them does (a pointer handler of
\* Canvas.jsx, or a bare message with the Canvas left alone).
DrawStart(s, data) ==
    /\ status[s] = "open"
    /\ currentRoom[s] # Null => CanEmit(InRoom(sioRooms, currentRoom[s]) \ {s}, 1)
    /\ chan' = Relay(s, "draw_start", data)
    /\ UNCHANGED << rooms, colorIndex, operationIdCounter, status, currentRoom,
                    sioRooms, operations, hasJoined >>

\* socket.on('draw_move')
DrawMove(s, data) ==
    /\ status[s] = "open"
    /\ currentRoom[s] # Null => CanEmit(InRoom(sioRooms, currentRoom[s]) \ {s}, 1)
    /\ chan' = Relay(s, "draw_move", data)
    /\ UNCHANGED << rooms, colorIndex, operationIdCounter, status, currentRoom,
                    sioRooms, operations, hasJoined >>

\* The draw_end handler broadcasting with socket.to (the author left out).
DrawEnd_toOthers(s, data) ==
    /\ status[s] = "open"
    /\ operationIdCounter < MaxOps
    /\ IF currentRoom[s] = Null THEN UNCHANGED coreVars
       ELSE LET a == addOperation(rooms, operationIdCounter, currentRoom[s], s, data)
            IN /\ CanEmit(InRoom(sioRooms, currentRoom[s]), 1)
               /\ rooms' = a.rooms
               /\ operationIdCounter' = a.counter
               /\ chan' = Emit(chan, InRoom(sioRooms, currentRoom[s]) \ {s},
                               [type |-> "operation_added", operation |-> a.operation])
               /\ UNCHANGED << colorIndex, status, currentRoom, sioRooms, operations,
                               hasJoined >>

\* The draw_end handler without `if (!currentRoom) return`.
DrawEnd_noRoomTest(s, data) ==
    /\ status[s] = "open"
    /\ operationIdCounter < MaxOps
    /\ LET a == addOperation(rooms, operationIdCounter, currentRoom[s], s, data)
       IN /\ CanEmit(InRoom(sioRooms, currentRoom[s]), 1)
          /\ rooms' = a.rooms
          /\ operationIdCounter' = a.counter
          /\ chan' = Emit(chan, InRoom(sioRooms, currentRoom[s]),
                          [type |-> "operation_added", operation |-> a.operation])
          /\ UNCHANGED << colorIndex, status, currentRoom, sioRooms, operations,
                          hasJoined >>

\* socket.on('draw_end')
DrawEnd(s, data) ==
    /\ status[s] = "open"
    /\ operationIdCounter < MaxOps
    /\ IF currentRoom[s] = Null THEN UNCHANGED coreVars
       ELSE LET a == addOperation(rooms, operationIdCounter, currentRoom[s], s, data)
            IN /\ CanEmit(InRoom(sioRooms, currentRoom[s]), 1)
               /\ rooms' = a.rooms
               /\ operationIdCounter' = a.counter
               /\ chan' = Emit(chan, InRoom(sioRooms, currentRoom[s]),
                               [type |-> "operation_added", operation |-> a.operation])
               /\ UNCHANGED << colorIndex, status, currentRoom, sioRooms, operations,
                               hasJoined >>

\* The undo handler broadcasting with socket.to (the sender left out).
Undo_toOthers(s) ==
    /\ status[s] = "open"
    /\ IF currentRoom[s] = Null THEN UNCHANGED vars
       ELSE LET u == undoOperation(rooms, currentRoom[s])
            IN /\ CanEmit(InRoom(sioRooms, currentRoom[s]), 1)
               /\ rooms' = u.rooms
               /\ chan' = IF Len(u.operation) > 0
                          THEN Emit(chan, InRoom(sioRooms, currentRoom[s]) \ {s},
                                    [type |-> "operation_removed",
                                     operationId |-> u.operation[1].id])
                          ELSE chan
               /\ UNCHANGED << colorIndex, operationIdCounter, status, currentRoom,
                               sioRooms, operations, hasJoined >>
               /\ UNCHANGED canvasVars /\ UNCHANGED statusVars

\* The undo handler without the `if (removedOperation)` test.
Undo_unguarded(s) ==
    /\ status[s] = "open"
    /\ IF currentRoom[s] = Null THEN UNCHANGED vars
       ELSE LET u == undoOperation(rooms, currentRoom[s])
            IN /\ CanEmit(InRoom(sioRooms, currentRoom[s]), 1)
               /\ rooms' = u.rooms
               /\ chan' = Emit(chan, InRoom(sioRooms, currentRoom[s]),
                               [type |-> "operation_removed",
                                operationId |-> IF Len(u.operation) > 0
                                                THEN u.operation[1].id ELSE 0])
               /\ UNCHANGED << colorIndex, operationIdCounter, status, currentRoom,
                               sioRooms, operations, hasJoined >>
               /\ UNCHANGED canvasVars /\ UNCHANGED statusVars

\* socket.on('undo')
Undo(s) ==
    /\ status[s] = "open"
    /\ IF currentRoom[s] = Null THEN UNCHANGED vars
       ELSE LET u == undoOperation(rooms, currentRoom[s])
            IN /\ CanEmit(InRoom(sioRooms, currentRoom[s]), 1)
               /\ rooms' = u.rooms
               /\ chan' = IF Len(u.operation) > 0
                          THEN Emit(chan, InRoom(sioRooms, currentRoom[s]),
                                    [type |-> "operation_removed",
                                     operationId |-> u.operation[1].id])
                          ELSE chan
               /\ UNCHANGED << colorIndex, operationIdCounter, status, currentRoom,
                               sioRooms, operations, hasJoined >>
               /\ UNCHANGED canvasVars /\ UNCHANGED statusVars

\* socket.on('cursor_move')
CursorMove(s, data) ==
    /\ status[s] = "open"
    /\ IF currentRoom[s] = Null THEN UNCHANGED vars
       ELSE /\ CanEmit(InRoom(sioRooms, currentRoom[s]) \ {s}, 1)
            /\ rooms' = updateCursor(rooms, currentRoom[s], s, data.x, data.y)
            /\ chan' = Emit(chan, InRoom(sioRooms, currentRoom[s]) \ {s},
                            [type |-> "cursor_update", userId |-> s,
                             x |-> data.x, y |-> data.y])
            /\ UNCHANGED << colorIndex, operationIdCounter, status, currentRoom,
                            sioRooms, operations, hasJoined >>
            /\ UNCHANGED canvasVars /\ UNCHANGED statusVars

\* socket.on('disconnect'): socket.io has already taken the socket out of its
\* rooms, and what was still in flight to it is lost.
OnDisconnect(s) ==
    LET sio1 == [sioRooms EXCEPT ![s] = {}]
        ch1 == [chan EXCEPT ![s] = << >>]
    IN /\ sioRooms' = sio1
       /\ IF currentRoom[s] # Null
          THEN LET r == removeUserFromRoom(rooms, currentRoom[s], s)
                   users == getRoomUsers(r.rooms, currentRoom[s])
               IN /\ CanEmit(InRoom(sio1, currentRoom[s]), 1)
                  /\ rooms' = r.rooms
                  /\ chan' = Emit(ch1, InRoom(sio1, currentRoom[s]),
                                  [type |-> "user_left", userId |-> s,
                                   user |-> r.user, users |-> users])
          ELSE /\ rooms' = rooms
               /\ chan' = ch1

\* The connection ends because its client goes away (the page is closed): the
\* client's state is gone with it.
Disconnect(s) ==
    /\ status[s] = "open"
    /\ OnDisconnect(s)
    /\ status' = [status EXCEPT ![s] = "closed"]
    /\ operations' = [operations EXCEPT ![s] = << >>]
    /\ hasJoined' = [hasJoined EXCEPT ![s] = FALSE]
    /\ isDrawing' = [isDrawing EXCEPT ![s] = FALSE]
    /\ currentPath' = [currentPath EXCEPT ![s] = << >>]
    /\ canvas' = [canvas EXCEPT ![s] = << >>]
    /\ connected' = [connected EXCEPT ![s] = FALSE]
    /\ UNCHANGED << colorIndex, operationIdCounter, currentRoom, optimizePathCall >>

\* The connection ends under a client that stays: the server runs the same
\* handler, the client keeps its state (its 'disconnect' listener only
\* reports connection_status).
ChannelLost(s) ==
    /\ status[s] = "open"
    /\ OnDisconnect(s)
    /\ status' = [status EXCEPT ![s] = "lost"]
    /\ UNCHANGED << colorIndex, operationIdCounter, currentRoom, operations, hasJoined >>
    /\ UNCHANGED canvasVars
    /\ connected' = EmitConnectionStatus(connected, s, [connected |-> FALSE])

\* socket.io-client reconnects (reconnection: true): the server runs
\* io.on('connection') for the new connection, whose currentRoom is null.  The
\* model keeps the client's slot s for the new connection; the old id is out
\* of every table by then.
Reconnect(s) ==
    /\ status[s] = "lost"
    /\ status' = [status EXCEPT ![s] = "open"]
    /\ currentRoom' = [currentRoom EXCEPT ![s] = Null]
    /\ UNCHANGED << rooms, colorIndex, operationIdCounter, sioRooms, chan, operations,
                    hasJoined >>
    /\ UNCHANGED canvasVars
    /\ connected' = EmitConnectionStatus(connected, s, [connected |-> TRUE])

----------------------------------------------------------------------------
\* App.jsx: the client's handlers for the authoritative events

\* websocketService.on('connection_status', ({ connected }) => setConnected(connected))
OnConnectionStatus(flag, msg) == msg.connected

\* websocketService.on('full_sync')
OnFullSync(ops, msg) == msg.operations

\* The operation_added handler putting the new operation first.
OnOperationAdded_prepend(ops, msg) == <<msg.operation>> \o ops

\* websocketService.on('operation_added')
OnOperationAdded(ops, msg) == Append(ops, msg.operation)

\* websocketService.on('operation_removed')
OnOperationRemoved(ops, msg) == SelectSeq(ops, LAMBDA op : op.id # msg.operationId)

\* Toolbar state of each client (currentColor, currentWidth, currentTool).
ToolsOf(s) == [color |-> DraftOf(s).color, width |-> DraftOf(s).width,
               tool |-> DraftOf(s).tool]

\* The client takes the next message off its channel; a handler that sets
\* `operations` makes the Canvas effect run.
Deliver(s) ==
    /\ status[s] = "open"
    /\ Len(chan[s]) > 0
    /\ LET msg == Head(chan[s])
           ops1 == CASE msg.type = "full_sync" -> OnFullSync(operations[s], msg)
                     [] msg.type = "operation_added" -> OnOperationAdded(operations[s], msg)
                     [] msg.type = "operation_removed" -> OnOperationRemoved(operations[s], msg)
                     [] OTHER -> operations[s]
       IN /\ operations' = [operations EXCEPT ![s] = ops1]
          /\ canvas' = [canvas EXCEPT ![s] =
                 IF msg.type \in {"full_sync", "operation_added", "operation_removed"}
                 THEN RedrawEffect(@, ops1, isDrawing[s], currentPath[s], ToolsOf(s))
                 ELSE @]
          /\ connected' = [connected EXCEPT ![s] =
                 IF msg.type = "connection_status"
                 THEN OnConnectionStatus(@, msg)
                 ELSE @]
    /\ chan' = [chan EXCEPT ![s] = Tail(@)]
    /\ UNCHANGED << rooms, colorIndex, operationIdCounter, status, currentRoom, sioRooms,
                    hasJoined, isDrawing, currentPath, optimizePathCall >>

----------------------------------------------------------------------------
\* Canvas.jsx: the pointer handlers of a client whose Canvas is mounted
\* (hasJoined).  socket.emit hands the event to the server, which handles it
\* in the same step; lastPointRef is the last point of currentPath while a
\* stroke is drawn.

\* Pointer positions of the gestures: a start, a move of less than 2 pixels
\* from it and a move away from it.
StartPoints == {Point(0, 0)}
MovePoints == {Point(1, 1), Point(10, 10)}

\* Points a stroke in progress may hold.
MaxPath == 2

\* handleDrawStart: no test of isDrawing; a stroke in progress is dropped.
HandleDrawStart(s, point) ==
    /\ status[s] = "open"
    /\ hasJoined[s]
    /\ isDrawing' = [isDrawing EXCEPT ![s] = TRUE]
    /\ currentPath' = [currentPath EXCEPT ![s] = <<point>>]
    /\ canvas' = [canvas EXCEPT ![s] =
           RedrawEffect(@, operations[s], TRUE, <<point>>, ToolsOf(s))]
    /\ DrawStart(s, [x |-> point.x, y |-> point.y, color |-> ToolsOf(s).color,
                     width |-> ToolsOf(s).width, tool |-> ToolsOf(s).tool])
    /\ UNCHANGED << optimizePathCall, connected >>

\* `distance < 2`, on the squares
TooClose(p, q) ==
    (p.x - q.x) * (p.x - q.x) + (p.y - q.y) * (p.y - q.y) < 4

\* handleDrawMove without the `if (!isDrawing) return` test.
HandleDrawMove_unguarded(s, point) ==
    /\ status[s] = "open"
    /\ hasJoined[s]
    /\ IF Len(currentPath[s]) > 0
          /\ TooClose(point, currentPath[s][Len(currentPath[s])])
       THEN UNCHANGED vars
       ELSE /\ currentPath' = [currentPath EXCEPT ![s] = Append(@, point)]
            /\ canvas' = [canvas EXCEPT ![s] =
                   drawStroke(redrawCanvas(@, operations[s]),
                              Append(currentPath[s], point),
                              ToolsOf(s).color, ToolsOf(s).width, ToolsOf(s).tool)]
            /\ isDrawing' = isDrawing
            /\ DrawMove(s, point)
            /\ UNCHANGED << optimizePathCall, connected >>

\* handleDrawMove (the throttle decides which pointer events reach it)
HandleDrawMove(s, point) ==
    /\ status[s] = "open"
    /\ hasJoined[s]
    /\ IF ~isDrawing[s] THEN UNCHANGED vars
       ELSE IF Len(currentPath[s]) > 0
               /\ TooClose(point, currentPath[s][Len(currentPath[s])])
            THEN UNCHANGED vars
       ELSE /\ currentPath' = [currentPath EXCEPT ![s] = Append(@, point)]
            /\ canvas' = [canvas EXCEPT ![s] =
                   drawStroke(redrawCanvas(@, operations[s]),
                              Append(currentPath[s], point),
                              ToolsOf(s).color, ToolsOf(s).width, ToolsOf(s).tool)]
            /\ isDrawing' = isDrawing
            /\ DrawMove(s, point)
            /\ UNCHANGED << optimizePathCall, connected >>

\* handleDrawEnd
HandleDrawEnd(s) ==
    /\ status[s] = "open"
    /\ hasJoined[s]
    /\ IF ~isDrawing[s] THEN UNCHANGED vars
       ELSE /\ isDrawing' = [isDrawing EXCEPT ![s] = FALSE]
            /\ currentPath' = [currentPath EXCEPT ![s] = << >>]
            /\ canvas' = [canvas EXCEPT ![s] =
                   RedrawEffect(@, operations[s], FALSE, << >>, ToolsOf(s))]
            /\ UNCHANGED << optimizePathCall, connected >>
            /\ IF Len(currentPath[s]) > 0
               THEN DrawEnd(s, [points |-> currentPath[s],
                                color |-> ToolsOf(s).color,
                                width |-> ToolsOf(s).width,
                                tool |-> ToolsOf(s).tool])
               ELSE UNCHANGED coreVars

----------------------------------------------------------------------------
\* Calls of optimizePath.

\* Points of the paths handed to it, in tenths of a pixel.
PathPoints ==
    {Point(0, 0), Point(10, 1), Point(20, -1), Point(100, 0), Point(-50, 0),
     Point(50, 30)}

\* Tolerances: none, and the default of 2 pixels.
Tolerances == {0, 20}

\* Points of a path handed to it.
MaxPoints == 4

\* optimizePath applied to a path and a tolerance.
OptimizePath(points, tolerance) ==
    /\ optimizePathCall' = [points |-> points, tolerance |-> tolerance,
                            result |-> optimizePath(points, tolerance)]
    /\ UNCHANGED coreVars
    /\ UNCHANGED << isDrawing, currentPath, canvas, connected >>

\* The path of a stroke grows by a point and is simplified again.
NextPath ==
    \E point \in PathPoints, tolerance \in Tolerances :
        /\ Len(optimizePathCall.points) < MaxPoints
        /\ OptimizePath(Append(optimizePathCall.points, point), tolerance)

SpecPath == Init /\ [][NextPath]_vars

\* Every handler, every input.
Next ==
    \/ \E s \in Sockets : Connect(s)
    \/ \E s \in Sockets, roomId \in RoomIds, username \in Usernames :
          colorIndex < MaxJoins /\ JoinRoom(s, roomId, username)
    \/ \E s \in Sockets, data \in StartData \cup StartDataWithUserId : DrawStart(s, data) /\ UNCHANGED canvasVars /\ UNCHANGED statusVars
    \/ \E s \in Sockets, data \in MoveData : DrawMove(s, data) /\ UNCHANGED canvasVars /\ UNCHANGED statusVars
    \/ \E s \in Sockets, data \in Drafts : DrawEnd(s, data) /\ UNCHANGED canvasVars /\ UNCHANGED statusVars
    \/ \E s \in Sockets : Undo(s)
    \/ \E s \in Sockets, data \in CursorData : CursorMove(s, data)
    \/ \E s \in Sockets : Disconnect(s)
    \/ \E s \in Sockets : ChannelLost(s)
    \/ \E s \in Sockets : Reconnect(s)
    \/ \E s \in Sockets : Deliver(s)
    \/ \E s \in Sockets, point \in StartPoints : HandleDrawStart(s, point)
    \/ \E s \in Sockets, point \in MovePoints :
          Len(currentPath[s]) < MaxPath /\ HandleDrawMove(s, point)
    \/ \E s \in Sockets : HandleDrawEnd(s)

Spec == Init /\ [][Next]_vars

\* The handlers that touch the registry and the logs, with the client's
\* handling of what they emit; clients behave as App.jsx makes them: each
\* joins once (handleJoinRoom runs on login), names itself (no blank
\* username) and draws its own stroke.
NextLog ==
    \/ \E s \in Sockets : Connect(s)
    \/ \E s \in Sockets, roomId \in RoomIds :
          colorIndex < MaxJoins /\ currentRoom[s] = Null /\ JoinRoom(s, roomId, "ann")
    \/ \E s \in Sockets : DrawEnd(s, DraftOf(s)) /\ UNCHANGED canvasVars /\ UNCHANGED statusVars
    \/ \E s \in Sockets : Undo(s)
    \/ \E s \in Sockets : Disconnect(s)
    \/ \E s \in Sockets : Deliver(s)

SpecLog == Init /\ [][NextLog]_vars

\* One room, as App.jsx joins it ('default'), with strokes announced by
\* draw_start before they are committed.
NextSync ==
    \/ \E s \in Sockets : Connect(s)
    \/ \E s \in Sockets :
          colorIndex < MaxJoins /\ currentRoom[s] = Null /\ JoinRoom(s, "r1", "ann")
    \/ \E s \in Sockets, data \in StartData : DrawStart(s, data) /\ UNCHANGED canvasVars /\ UNCHANGED statusVars
    \/ \E s \in Sockets : DrawEnd(s, DraftOf(s)) /\ UNCHANGED canvasVars /\ UNCHANGED statusVars
    \/ \E s \in Sockets : Undo(s)
    \/ \E s \in Sockets : Disconnect(s)
    \/ \E s \in Sockets : Deliver(s)

SpecSync == Init /\ [][NextSync]_vars

\* Every message is handled before the server processes the next event.
Quiet == \A s \in Sockets : chan[s] = << >>

\* Clients that send join_room again, for either room id, on a connection that
\* has joined already.
NextRooms ==
    \/ \E s \in Sockets : Connect(s)
    \/ \E s \in Sockets, roomId \in RoomIds :
          Quiet /\ colorIndex < MaxJoins /\ JoinRoom(s, roomId, "ann")
    \/ \E s \in Sockets : Quiet /\ DrawEnd(s, DraftOf(s)) /\ UNCHANGED canvasVars /\ UNCHANGED statusVars
    \/ \E s \in Sockets : Quiet /\ Undo(s)
    \/ \E s \in Sockets : Quiet /\ Disconnect(s)
    \/ \E s \in Sockets : Deliver(s)

SpecRooms == Init /\ [][NextRooms]_vars

\* Clients that draw and move the pointer: strokes are announced and traced
\* by draw_start and draw_move before draw_end commits them, and a draw_start
\* may carry a userId field. A stroke starts, a pointer moves, a commit and a
\* join happen when every earlier message has been handled.
NextRelay ==
    \/ \E s \in Sockets : Connect(s)
    \/ \E s \in Sockets, roomId \in RoomIds :
          Quiet /\ colorIndex < MaxJoins /\ currentRoom[s] = Null
                /\ JoinRoom(s, roomId, "ann")
    \/ \E s \in Sockets, data \in StartData \cup StartDataWithUserId :
          Quiet /\ DrawStart(s, data) /\ UNCHANGED canvasVars /\ UNCHANGED statusVars
    \/ \E s \in Sockets, data \in MoveData : DrawMove(s, data) /\ UNCHANGED canvasVars /\ UNCHANGED statusVars
    \/ \E s \in Sockets : Quiet /\ DrawEnd(s, DraftOf(s)) /\ UNCHANGED canvasVars /\ UNCHANGED statusVars
    \/ \E s \in Sockets, data \in CursorData : Quiet /\ CursorMove(s, data)
    \/ \E s \in Sockets : Disconnect(s)
    \/ \E s \in Sockets : Deliver(s)

SpecRelay == Init /\ [][NextRelay]_vars

\* Connections that come and go: each joins one room, under a name or with a
\* blank one, loses its channel or leaves, and comes back as a new connection
\* that joins again, far enough for the colour counter to pass the end of the
\* palette.
NextPresence ==
    \/ \E s \in Sockets : Connect(s)
    \/ \E s \in Sockets, roomId \in RoomIds, username \in Usernames :
          Quiet /\ colorIndex < MaxColorIndex /\ currentRoom[s] = Null
                /\ JoinRoom(s, roomId, username)
    \/ \E s \in Sockets : Quiet /\ Disconnect(s)
    \/ \E s \in Sockets : Quiet /\ ChannelLost(s)
    \/ \E s \in Sockets : Reconnect(s)
    \/ \E s \in Sockets : Deliver(s)

SpecPresence == Init /\ [][NextPresence]_vars

\* Clients as shipped, in the room App.jsx joins: each joins once and draws
\* with the pointer, every stroke started, traced and ended by the Canvas
\* handlers; undo comes from the toolbar.  A client acts when every earlier
\* message has been handled.
NextCanvas ==
    \/ \E s \in Sockets : Connect(s)
    \/ \E s \in Sockets :
          Quiet /\ colorIndex < MaxJoins /\ ~hasJoined[s] /\ JoinRoom(s, "r1", "ann")
    \/ \E s \in Sockets, point \in StartPoints :
          Quiet /\ HandleDrawStart(s, point)
    \/ \E s \in Sockets, point \in MovePoints :
          Quiet /\ Len(currentPath[s]) < MaxPath /\ HandleDrawMove(s, point)
    \/ \E s \in Sockets : Quiet /\ HandleDrawEnd(s)
    \/ \E s \in Sockets : Quiet /\ Undo(s)
    \/ \E s \in Sockets : Quiet /\ Disconnect(s)
    \/ \E s \in Sockets : Deliver(s)

SpecCanvas == Init /\ [][NextCanvas]_vars

\* The strokes of a run of the drawing clients alone.
MaxStrokes == 2

\* The pointer handlers of Canvas.jsx in one room, with everything they emit
\* handled by the server and delivered before the next gesture; nobody undoes.
NextStroke ==
    \/ \E s \in Sockets : Connect(s)
    \/ \E s \in Sockets :
          Quiet /\ colorIndex < MaxJoins /\ ~hasJoined[s] /\ JoinRoom(s, "r1", "ann")
    \/ \E s \in Sockets, point \in StartPoints :
          Quiet /\ HandleDrawStart(s, point)
    \/ \E s \in Sockets, point \in MovePoints :
          Quiet /\ Len(currentPath[s]) < MaxPath /\ HandleDrawMove(s, point)
    \/ \E s \in Sockets :
          Quiet /\ operationIdCounter < MaxStrokes /\ HandleDrawEnd(s)
    \/ \E s \in Sockets : Quiet /\ Disconnect(s)
    \/ \E s \in Sockets : Deliver(s)

SpecStroke == Init /\ [][NextStroke]_vars

\* Clients as shipped whose channel is lost and re-opened: App.jsx shows the
\* join form, the only sender of join_room, while hasJoined is false.
JoinForm(s) ==
    Quiet /\ colorIndex < MaxJoins /\ ~hasJoined[s] /\ JoinRoom(s, "r1", "ann")

NextReconnect ==
    \/ \E s \in Sockets : Connect(s)
    \/ \E s \in Sockets : JoinForm(s)
    \/ \E s \in Sockets : Quiet /\ DrawEnd(s, DraftOf(s)) /\ UNCHANGED canvasVars /\ UNCHANGED statusVars
    \/ \E s \in Sockets : Quiet /\ Undo(s)
    \/ \E s \in Sockets : Quiet /\ ChannelLost(s)
    \/ \E s \in Sockets : Reconnect(s)
    \/ \E s \in Sockets : Deliver(s)

\* socket.io-client keeps trying to reconnect, messages that have arrived are
\* handled, and a user facing the join form submits it.
FairReconnect ==
    \A s \in Sockets :
        /\ WF_vars(Reconnect(s))
        /\ WF_vars(Deliver(s))
        /\ WF_vars(JoinForm(s))

SpecReconnect == Init /\ [][NextReconnect]_vars /\ FairReconnect

\* Every event of the protocol, from connections that have joined and from
\* connections that have not; every message is handled before the next event.
NextEvents ==
    \/ \E s \in Sockets : Connect(s)
    \/ \E s \in Sockets, roomId \in RoomIds :
          Quiet /\ colorIndex < MaxJoins /\ currentRoom[s] = Null
                /\ JoinRoom(s, roomId, "ann")
    \/ \E s \in Sockets, data \in StartData :
          Quiet /\ DrawStart(s, data) /\ UNCHANGED canvasVars /\ UNCHANGED statusVars
    \/ \E s \in Sockets, data \in MoveData :
          Quiet /\ DrawMove(s, data) /\ UNCHANGED canvasVars /\ UNCHANGED statusVars
    \/ \E s \in Sockets : Quiet /\ DrawEnd(s, DraftOf(s)) /\ UNCHANGED canvasVars /\ UNCHANGED statusVars
    \/ \E s \in Sockets : Quiet /\ Undo(s)
    \/ \E s \in Sockets, data \in CursorData : Quiet /\ CursorMove(s, data)
    \/ \E s \in Sockets : Quiet /\ Disconnect(s)
    \/ \E s \in Sockets : Deliver(s)

SpecEvents == Init /\ [][NextEvents]_vars

\* Pointers moving over the canvases of clients that may send join_room again,
\* for either room id, on a connection that has joined already.
NextCursors ==
    \/ \E s \in Sockets : Connect(s)
    \/ \E s \in Sockets, roomId \in RoomIds :
          Quiet /\ colorIndex < MaxJoins /\ JoinRoom(s, roomId, "ann")
    \/ \E s \in Sockets, data \in CursorData : Quiet /\ CursorMove(s, data)
    \/ \E s \in Sockets : Quiet /\ Disconnect(s)
    \/ \E s \in Sockets : Deliver(s)

SpecCursors == Init /\ [][NextCursors]_vars

----------------------------------------------------------------------------
\* Vocabulary of the properties

\* The log of a room, empty when the registry has no such room.
Log(r) == IF HasRoom(rooms, r) THEN rooms[r].operations ELSE << >>

\* Participant ids of a room's presence table.
Members(r) == IF HasRoom(rooms, r) THEN MapKeys(rooms[r].users) ELSE {}

Open == {s \in Sockets : status[s] = "open"}

\* a occurs before b in seq
Precedes(seq, a, b) ==
    \E i, j \in 1..Len(seq) : i < j /\ seq[i] = a /\ seq[j] = b

Occurs(seq, a) == \E i \in 1..Len(seq) : seq[i] = a

\* The messages of one event type waiting on a channel, in channel order.
Pending(s, event) == SelectSeq(chan[s], LAMBDA m : m.type = event)

\* The operations a client has been handed, in the order of arrival: those in
\* its list, then those of the operation_added messages still on its channel.
Arrival(s) ==
    operations[s] \o [i \in 1..Len(Pending(s, "operation_added")) |->
                         Pending(s, "operation_added")[i].operation]

\* The operation ids a message carries.
MsgIds(m) ==
    CASE m.type = "operation_added" -> {m.operation.id}
      [] m.type = "operation_removed" -> {m.operationId}
      [] m.type = "full_sync" -> {m.operations[i].id : i \in 1..Len(m.operations)}
      [] OTHER -> {}

\* Every operation id in a log, in a client's list or in flight.
KnownIds ==
    UNION ( {{Log(r)[i].id : i \in 1..Len(Log(r))} : r \in RoomIds}
            \cup {{operations[s][i].id : i \in 1..Len(operations[s])} : s \in Sockets}
            \cup {UNION {MsgIds(chan[s][i]) : i \in 1..Len(chan[s])} : s \in Sockets} )

\* C1: any two operations reach every participant in the same relative order,
\* and that order is their order in the server's log.
C1_SameOrderEverywhere ==
    \A s \in Open : \A i, j \in 1..Len(Arrival(s)) :
        i < j =>
            /\ \A t \in Open : ~Precedes(Arrival(t), Arrival(s)[j], Arrival(s)[i])
            /\ \A r \in RoomIds : ~Precedes(Log(r), Arrival(s)[j], Arrival(s)[i])

\* Two commits of one room are on their way to both of its participants.
C1_Witness ==
    \E r \in RoomIds :
        /\ Members(r) = Sockets
        /\ Len(Log(r)) >= 2
        /\ \A s \in Sockets :
              /\ Len(Pending(s, "operation_added")) = 2
              /\ \A i \in 1..2 : Occurs(Log(r), Pending(s, "operation_added")[i].operation)

\* C2: a participant of one room that has handled everything sent to it holds
\* exactly the server's log of that room, in order.
C2_Convergence ==
    \A s \in Open : \A r \in RoomIds :
        (currentRoom[s] = r /\ sioRooms[s] = {r} /\ chan[s] = << >>)
            => operations[s] = Log(r)

\* Both participants are level with a log that went through commits and an undo.
C2_Witness ==
    /\ \A s \in Sockets : s \in Open /\ currentRoom[s] = "r1" /\ chan[s] = << >>
    /\ Len(Log("r1")) = 2
    /\ Log("r1")[2].id = Log("r1")[1].id + 2
    /\ Log("r1")[1].userId # Log("r1")[2].userId

\* C3: the snapshot lists the surviving operations in the order of their
\* commits (ids are handed out in commit order): an earlier commit is never
\* behind a later one.
C3_SnapshotInCommitOrder ==
    \A r \in DOMAIN rooms :
        LET ops == getOperations(rooms, r).operations
        IN \A i, j \in 1..Len(ops) : i < j => ops[i].id < ops[j].id

\* A log whose survivors were committed before and after an undone operation.
C3_Witness ==
    \E r \in RoomIds :
        /\ Len(Log(r)) = 2
        /\ Log(r)[1].id = 1
        /\ Log(r)[2].id = 3

\* C4: on a non-empty log undoOperation returns the tail, which is the most
\* recently committed operation of the log, and takes out nothing else.
C4_UndoTakesTheTail ==
    \A r \in DOMAIN rooms :
        Len(Log(r)) > 0 =>
            LET ops == Log(r)
                u == undoOperation(rooms, r)
            IN /\ u.operation = <<ops[Len(ops)]>>
               /\ \A i \in 1..Len(ops) : ops[i].id <= ops[Len(ops)].id
               /\ u.rooms[r].operations = SubSeq(ops, 1, Len(ops) - 1)
               /\ u.rooms = [rooms EXCEPT ![r].operations = u.rooms[r].operations]

\* An undo processed after the author of the tail had left: the participant
\* that stayed is being told, after user_left, that the leaver's operation is
\* removed, and the log keeps the other operation.
C4_Witness ==
    \E s \in Open :
        /\ currentRoom[s] # Null
        /\ Len(chan[s]) = 2
        /\ chan[s][1].type = "user_left"
        /\ chan[s][2].type = "operation_removed"
        /\ Len(operations[s]) = 2
        /\ operations[s][2].id = chan[s][2].operationId
        /\ operations[s][2].userId = chan[s][1].userId
        /\ Log(currentRoom[s]) = <<operations[s][1]>>

\* C5: a commit followed at once by an undo gives back the committed operation
\* and leaves the room as it was before the commit.
C5_UndoInvertsCommit ==
    \A r \in DOMAIN rooms : \A s \in Sockets : \A data \in Drafts :
        LET a == addOperation(rooms, operationIdCounter, r, s, data)
            u == undoOperation(a.rooms, r)
        IN /\ u.operation = <<a.operation>>
           /\ u.rooms = rooms

\* A commit on a non-empty log was undone at once: the participant, level
\* with the log before the commit, has both messages still to handle.
C5_Witness ==
    \E s \in Open :
        /\ currentRoom[s] # Null
        /\ Len(chan[s]) = 2
        /\ chan[s][1].type = "operation_added"
        /\ chan[s][2].type = "operation_removed"
        /\ chan[s][2].operationId = chan[s][1].operation.id
        /\ Len(operations[s]) > 0
        /\ operations[s] = Log(currentRoom[s])

\* A joined socket whose room has an empty log.
AtEmptyLog(s) ==
    /\ status[s] = "open"
    /\ currentRoom[s] # Null
    /\ Len(Log(currentRoom[s])) = 0

\* C6: an undo processed on an empty log changes nothing: the log stays
\* empty and no message is put on any channel, so repeating it does the same.
C6_UndoOnEmptyLogIsNoOp ==
    [][\A s \in Sockets : (AtEmptyLog(s) /\ Undo(s)) => UNCHANGED vars]_vars

\* The log is empty again while a participant still shows an operation (its
\* operation_removed is in flight): an undo sent now finds the log empty.
C6_Witness ==
    \E s \in Sockets :
        /\ AtEmptyLog(s)
        /\ Len(operations[s]) > 0
        /\ Len(Pending(s, "operation_removed")) > 0
        /\ ENABLED Undo(s)

\* The connected participants of a room.
Participants(r) == Members(r) \cap Open

\* C7: an undo processed on a non-empty log puts exactly one operation_removed,
\* with the id of the removed tail, on the channel of every connected
\* participant of the room, the sender included, and nothing anywhere else.
C7_UndoBroadcast ==
    [][\A s \in Sockets :
          (status[s] = "open" /\ currentRoom[s] # Null
              /\ Len(Log(currentRoom[s])) > 0 /\ Undo(s))
          => LET ops == Log(currentRoom[s])
                 removed == [type |-> "operation_removed",
                             operationId |-> ops[Len(ops)].id]
             IN /\ s \in Participants(currentRoom[s])
                /\ \A t \in Sockets :
                      chan'[t] = IF t \in Participants(currentRoom[s])
                                 THEN Append(chan[t], removed)
                                 ELSE chan[t]]_vars

\* Both participants of a room have the same operation_removed as the last
\* message on their channels.
C7_Witness ==
    \E r \in RoomIds :
        /\ Participants(r) = Sockets
        /\ \A s \in Sockets :
              /\ Len(chan[s]) > 0
              /\ chan[s][Len(chan[s])].type = "operation_removed"
              /\ chan[s][Len(chan[s])] = chan[SocketOrder[1]][Len(chan[SocketOrder[1]])]

RECURSIVE TotalLogged(_)
\* The number of operations in the logs of the rooms of S.
TotalLogged(S) ==
    IF S = {} THEN 0
    ELSE LET r == CHOOSE q \in S : TRUE
         IN Len(Log(r)) + TotalLogged(S \ {r})

\* Every commit the server has processed is still in a log: no undo and no
\* destroyed room has taken one out, so the head of each log is the first
\* commit of its room.
NothingLost == operationIdCounter = TotalLogged(RoomIds)

\* C8 as claimed: the first operation committed in a room has id 1, whatever
\* was committed in other rooms.
C8_FirstIdInRoomIsOne ==
    NothingLost => \A r \in RoomIds : Len(Log(r)) > 0 => Log(r)[1].id = 1

\* C8 amended: ids come from one counter of the whole process, which starts at
\* 1, is shared by all rooms and is not reset when a room is destroyed: the
\* n-th commit the server processes gets id n, in whichever room.
C8_ProcessWideCounter ==
    /\ KnownIds \subseteq 1..operationIdCounter
    /\ \A r, q \in DOMAIN rooms : \A i \in 1..Len(Log(r)) : \A j \in 1..Len(Log(q)) :
          Log(r)[i].id = Log(q)[j].id => (r = q /\ i = j)
    /\ \A r \in RoomIds : \A s \in Sockets : \A data \in Drafts :
          addOperation(rooms, operationIdCounter, r, s, data).operation.id
              = operationIdCounter + 1

\* A room is in its second session: the one socket that had joined it has
\* left, and the participant that joined next, alone in the room at its join
\* and sent nothing since but its own commit, sees that commit get id 2, after
\* the id 1 of the destroyed session.
C8_Witness ==
    \E r \in RoomIds, s \in Sockets, t \in Open :
        /\ status[s] = "closed" /\ currentRoom[s] = r /\ currentRoom[t] = r
        /\ colorIndex = 2
        /\ Len(chan[t]) = 2
        /\ chan[t][1].type = "user_joined"
        /\ chan[t][1].userId = t
        /\ Len(chan[t][1].users) = 1
        /\ chan[t][2].type = "operation_added"
        /\ chan[t][2].operation.id = 2
        /\ Log(r) = <<chan[t][2].operation>>

\* Some log holds, after the step, an operation it did not hold before.
LogGains ==
    \E r \in DOMAIN rooms' : \E i \in 1..Len(rooms'[r].operations) :
        ~Occurs(Log(r), rooms'[r].operations[i])

\* C9: ids are strictly increasing along every log; the operation a draw_end
\* commits gets an id greater than every id committed before, removed ones
\* included; and only the processing of a draw_end hands out an id or adds to
\* a log: a draw_start changes neither counter nor registry.
C9_IdsIncreaseNeverReused ==
    [][ /\ \A r \in DOMAIN rooms' : \A i, j \in 1..Len(rooms'[r].operations) :
              i < j => rooms'[r].operations[i].id < rooms'[r].operations[j].id
        /\ \A s \in Sockets :
              (status[s] = "open" /\ currentRoom[s] # Null
                  /\ \E data \in Drafts : DrawEnd(s, data))
              => LET ops == rooms'[currentRoom[s]].operations
                 IN /\ Len(ops) = Len(Log(currentRoom[s])) + 1
                    /\ ops[Len(ops)].id > operationIdCounter
                    /\ \A n \in KnownIds : ops[Len(ops)].id > n
        /\ (operationIdCounter' # operationIdCounter \/ LogGains)
              => \E s \in Sockets, data \in Drafts :
                    currentRoom[s] # Null /\ DrawEnd(s, data)
        /\ \A s \in Sockets, data \in StartData :
              DrawStart(s, data)
                  => (rooms' = rooms /\ operationIdCounter' = operationIdCounter)
      ]_vars

\* After operation 1 was committed and undone, and a stroke announced by
\* draw_start was committed, the new operation is in the log with id 2: one
\* participant has the draw_start in flight, the other still lists operation
\* 1, with its removal and the new operation in flight.
C9_Witness ==
    \E s, t \in Open :
        /\ currentRoom[s] = "r1" /\ currentRoom[t] = "r1"
        /\ Len(operations[s]) = 1 /\ operations[s][1].id = 1
        /\ Len(chan[s]) = 2
        /\ chan[s][1].type = "operation_removed" /\ chan[s][1].operationId = 1
        /\ chan[s][2].type = "operation_added" /\ chan[s][2].operation.id = 2
        /\ Len(chan[t]) = 2
        /\ chan[t][1].type = "draw_start" /\ chan[t][1].userId = s
        /\ Log("r1") = <<chan[s][2].operation>>

\* C10: the disconnect of the only participant left in a room takes the room,
\* with its log, out of the registry in that step; and a join to a room id
\* the registry does not hold is answered with a full_sync of an empty
\* history and a participant list holding the joiner alone.
C10_LastLeaveDiscardsRoom ==
    [][ /\ \A s \in Sockets :
              (status[s] = "open" /\ currentRoom[s] # Null
                  /\ Members(currentRoom[s]) = {s} /\ Disconnect(s))
              => ~HasRoom(rooms', currentRoom[s])
        /\ \A s \in Sockets, r \in RoomIds, username \in Usernames :
              (~HasRoom(rooms, r) /\ JoinRoom(s, r, username))
              => LET sync == chan'[s][Len(chan[s]) + 1]
                 IN /\ sync.type = "full_sync"
                    /\ sync.operations = << >>
                    /\ Len(sync.users) = 1
                    /\ sync.users[1].userId = s
      ]_vars

\* A room's only participant committed and left; the socket that joined the
\* same room id next, and has been sent nothing but the answer to its join,
\* has a full_sync with no operation and itself as the only participant.
C10_Witness ==
    \E r \in RoomIds, s \in Sockets, t \in Open :
        /\ status[s] = "closed" /\ currentRoom[s] = r /\ currentRoom[t] = r
        /\ colorIndex = 2
        /\ operationIdCounter > 0
        /\ Len(chan[t]) = 2
        /\ chan[t][1].type = "full_sync"
        /\ chan[t][1].operations = << >>
        /\ Len(chan[t][1].users) = 1
        /\ chan[t][1].users[1].userId = t
        /\ chan[t][2].type = "user_joined"
        /\ Len(Log(r)) = 0

----------------------------------------------------------------------------
\* C11: between two events a room is in the registry exactly when its
\* presence table holds an entry: no room of the registry has an empty table,
\* a room id the registry lacks has no participant, and every joined
\* connection is listed in the room it names, so no handler's getRoom makes a
\* room where there is none.
C11_RoomIffParticipants ==
    /\ \A r \in RoomIds : HasRoom(rooms, r) <=> Len(getRoomUsers(rooms, r)) > 0
    /\ \A r \in DOMAIN rooms : Len(rooms[r].users) > 0
    /\ \A s \in Open : currentRoom[s] # Null => s \in Members(currentRoom[s])

\* One room was left by its only participant after a commit and is gone, while
\* the other room, whose log an undo has emptied, is still held by its
\* participant.
C11_Witness ==
    \E r, q \in RoomIds, s \in Sockets, t \in Open :
        /\ r # q
        /\ status[s] = "closed" /\ currentRoom[s] = r /\ ~HasRoom(rooms, r)
        /\ currentRoom[t] = q /\ Members(q) = {t}
        /\ operationIdCounter = 2
        /\ Len(Log(q)) = 0

\* C12: applied to a room id the registry does not hold, getOperations,
\* undoOperation, getRoomUsers, updateCursor and removeUserFromRoom each give
\* an empty or absent result and leave the registry as it is: none of them
\* creates the room.
C12_AbsentRoomIsNoOp ==
    \A r \in RoomIds : ~HasRoom(rooms, r) =>
        /\ getOperations(rooms, r) = [rooms |-> rooms, operations |-> << >>]
        /\ undoOperation(rooms, r) = [rooms |-> rooms, operation |-> Absent]
        /\ getRoomUsers(rooms, r) = << >>
        /\ \A s \in Sockets :
              /\ \A c \in CursorData : updateCursor(rooms, r, s, c.x, c.y) = rooms
              /\ removeUserFromRoom(rooms, r, s) = [rooms |-> rooms, user |-> Absent]

\* The part of C12 the registry's own operations keep: getRoomUsers,
\* updateCursor and removeUserFromRoom on an absent room id change nothing,
\* and getOperations and undoOperation give the empty history and no operation.
AbsentRoomResults ==
    \A r \in RoomIds : ~HasRoom(rooms, r) =>
        /\ getOperations(rooms, r).operations = << >>
        /\ undoOperation(rooms, r).operation = Absent
        /\ getRoomUsers(rooms, r) = << >>
        /\ \A s \in Sockets :
              /\ \A c \in CursorData : updateCursor(rooms, r, s, c.x, c.y) = rooms
              /\ removeUserFromRoom(rooms, r, s) = [rooms |-> rooms, user |-> Absent]

\* What getOperations and undoOperation do to the registry on an absent room
\* id: they leave an empty room under that id.
AbsentRoomCreated ==
    \A r \in RoomIds : ~HasRoom(rooms, r) =>
        /\ getOperations(rooms, r).rooms = rooms @@ (r :> EmptyRoom)
        /\ undoOperation(rooms, r).rooms = rooms @@ (r :> EmptyRoom)

\* The rooms whose presence table lists a connection.
RoomsListing(s) == {r \in RoomIds : s \in Members(r)}

\* C13: each connection id is in the presence table of at most one room, also
\* after the connection has sent join_room for a second room id.
C13_InOneRoomAtMost ==
    \A s \in Sockets : Cardinality(RoomsListing(s)) <= 1

\* A step in which the server processes an event sent by connection s.
Handles(s) ==
    \/ \E roomId \in RoomIds, username \in Usernames : JoinRoom(s, roomId, username)
    \/ \E data \in StartData : DrawStart(s, data)
    \/ \E data \in MoveData : DrawMove(s, data)
    \/ \E data \in Drafts : DrawEnd(s, data)
    \/ Undo(s)
    \/ \E data \in CursorData : CursorMove(s, data)
    \/ Disconnect(s)

\* The step puts a message on the channel of t.
Sent(t) == Len(chan'[t]) > Len(chan[t])

\* The logs of the rooms other than r are the same after the step.
OtherLogsKept(r) ==
    \A q \in RoomIds \ {r} :
        /\ HasRoom(rooms', q) <=> HasRoom(rooms, q)
        /\ HasRoom(rooms, q) => rooms'[q].operations = rooms[q].operations

\* C14: a commit or an undo in a room changes the log of no other room, and
\* whatever the server sends while it processes an event of a connection in
\* room r goes only to connections whose current room is r.
C14_RoomsIsolated ==
    [][\A s \in Sockets :
          (status[s] = "open" /\ Handles(s))
          => /\ (Undo(s) \/ \E data \in Drafts : DrawEnd(s, data))
                   => (currentRoom[s] # Null => OtherLogsKept(currentRoom[s]))
             /\ \A t \in Sockets : Sent(t) => currentRoom'[t] = currentRoom'[s]
      ]_vars

\* The part of C14 that holds: a commit or an undo changes no other room's log.
LogsIsolated ==
    [][\A s \in Sockets :
          (status[s] = "open" /\ currentRoom[s] # Null
              /\ (Undo(s) \/ \E data \in Drafts : DrawEnd(s, data)))
          => OtherLogsKept(currentRoom[s])
      ]_vars

\* The answer to a join of room r as the room is after the step: its whole
\* log and its whole presence table.
SyncOf(r) ==
    [type |-> "full_sync",
     operations |-> rooms'[r].operations,
     users |-> MapValues(rooms'[r].users)]

\* The connected participants of room r after the step.
ParticipantsAfter(r) ==
    {t \in Sockets : status'[t] = "open" /\ MapHas(rooms'[r].users, t)}

\* C15: processing a join of room r by s puts on the channel of s one
\* full_sync, holding the log of r and the participants of r with the joiner
\* among them, and after it one user_joined for s; every other participant of
\* r gets that user_joined and nothing else, everybody else gets nothing, and
\* the log is the one the room had before the join.
C15_JoinAnswer ==
    [][\A s \in Sockets, r \in RoomIds, username \in Usernames :
          (colorIndex' = colorIndex + 1 /\ JoinRoom(s, r, username))
          => LET sync == SyncOf(r)
                 joined == [type |-> "user_joined", userId |-> s,
                            user |-> rooms'[r].users[MapGet(rooms'[r].users, s)].value,
                            users |-> sync.users]
             IN /\ sync.operations = Log(r)
                /\ \E i \in 1..Len(sync.users) : sync.users[i].userId = s
                /\ \A t \in Members(r) : \E i \in 1..Len(sync.users) : sync.users[i].userId = t
                /\ s \in ParticipantsAfter(r)
                /\ chan'[s] = chan[s] \o <<sync, joined>>
                /\ \A t \in Sockets \ {s} :
                      chan'[t] = IF t \in ParticipantsAfter(r)
                                 THEN Append(chan[t], joined)
                                 ELSE chan[t]
      ]_vars

\* The second participant of a room whose log holds an operation has its
\* full_sync, with that operation and both participants, ahead of the
\* user_joined of its own join, and the first participant has that user_joined.
C15_Witness ==
    \E r \in RoomIds, s, t \in Open :
        /\ s # t /\ currentRoom[s] = r /\ currentRoom[t] = r
        /\ Len(Log(r)) > 0
        /\ Len(chan[t]) = 2
        /\ chan[t][1] = [type |-> "full_sync", operations |-> Log(r),
                         users |-> getRoomUsers(rooms, r)]
        /\ Len(chan[t][1].users) = 2
        /\ chan[t][2].type = "user_joined" /\ chan[t][2].userId = t
        /\ chan[s] = <<chan[t][2]>>

\* The positions of the full_sync messages on the channel of s.
SyncsInFlight(s) == {i \in 1..Len(chan[s]) : chan[s][i].type = "full_sync"}

\* Two connections that joined the same room, neither of which has left.
Roommates ==
    {p \in Open \X Open : p[1] # p[2] /\ currentRoom[p[1]] # Null
                          /\ currentRoom[p[1]] = currentRoom[p[2]]}

RECURSIVE Replay(_, _)
\* The operation list a client ends with when it handles msgs in order.
Replay(ops, msgs) ==
    IF Len(msgs) = 0 THEN ops
    ELSE LET msg == Head(msgs)
         IN Replay(CASE msg.type = "full_sync" -> OnFullSync(ops, msg)
                     [] msg.type = "operation_added" -> OnOperationAdded(ops, msg)
                     [] msg.type = "operation_removed" -> OnOperationRemoved(ops, msg)
                     [] OTHER -> ops,
                   Tail(msgs))

SnapshotThenCommit ==
    \E s \in Open :
        /\ SyncsInFlight(s) = {1}
        /\ Len(chan[s][1].operations) = 1
        /\ Len(Log(currentRoom[s])) = 2

\* C17: a draw_end processed for a joined connection s appends one operation,
\* authored by s and carrying the stroke sent, to the log of the room of s and
\* changes nothing else in the registry; one operation_added with that
\* operation is put on the channel of every connected participant of the
\* room, s included, and nothing on any other channel.
C17_CommitBroadcast ==
    [][\A s \in Sockets, data \in Drafts :
          (status[s] = "open" /\ currentRoom[s] # Null /\ DrawEnd(s, data))
          => LET r == currentRoom[s]
                 ops == rooms'[r].operations
                 op == ops[Len(ops)]
                 added == [type |-> "operation_added", operation |-> op]
             IN /\ ops = Append(Log(r), op)
                /\ rooms' = [rooms EXCEPT ![r].operations = ops]
                /\ op.userId = s
                /\ op.points = data.points /\ op.color = data.color
                /\ op.width = data.width /\ op.tool = data.tool
                /\ s \in Participants(r)
                /\ \A t \in Sockets :
                      chan'[t] = IF t \in Participants(r)
                                 THEN Append(chan[t], added)
                                 ELSE chan[t]
      ]_vars

\* The tail of a room's log, committed by one of the two participants, is the
\* last message on the channel of its author and of the other participant,
\* who has an earlier commit of its own ahead of it.
C17_Witness ==
    \E r \in RoomIds, s, t \in Sockets :
        /\ s # t /\ Participants(r) = {s, t}
        /\ Len(Log(r)) = 2
        /\ Log(r)[1].userId = t /\ Log(r)[2].userId = s
        /\ chan[s] # << >>
        /\ chan[s][Len(chan[s])] = [type |-> "operation_added", operation |-> Log(r)[2]]
        /\ Len(chan[t]) = 2
        /\ chan[t][1] = [type |-> "operation_added", operation |-> Log(r)[1]]
        /\ chan[t][2] = chan[s][Len(chan[s])]

\* The step puts on the channel of every connected participant of room r but
\* s one message of the given event that carries the fields of data and s as
\* userId, and leaves every other channel, that of s included, as it is.
RelayedToOthers(s, r, event, data) ==
    \A t \in Sockets :
        IF t \in Participants(r) \ {s}
        THEN /\ Len(chan'[t]) = Len(chan[t]) + 1
             /\ SubSeq(chan'[t], 1, Len(chan[t])) = chan[t]
             /\ LET msg == chan'[t][Len(chan'[t])]
                IN /\ msg.type = event
                   /\ msg.userId = s
                   /\ \A f \in (DOMAIN data) \ {"userId"} : msg[f] = data[f]
        ELSE chan'[t] = chan[t]

\* No log and no presence table is changed by the step, and no room is made
\* or destroyed.
LogsAndUsersKept ==
    /\ DOMAIN rooms' = DOMAIN rooms
    /\ \A r \in DOMAIN rooms :
          /\ rooms'[r].operations = rooms[r].operations
          /\ rooms'[r].users = rooms[r].users

\* What C18 asks of one step, for draw_start payloads drawn from Starts.
RelayContract(Starts) ==
    \A s \in Sockets :
        (status[s] = "open" /\ currentRoom[s] # Null)
        => /\ \A data \in Starts :
                 DrawStart(s, data)
                 => (LogsAndUsersKept
                        /\ RelayedToOthers(s, currentRoom[s], "draw_start", data))
           /\ \A data \in MoveData :
                 DrawMove(s, data)
                 => (LogsAndUsersKept
                        /\ RelayedToOthers(s, currentRoom[s], "draw_move", data))
           /\ \A data \in CursorData :
                 CursorMove(s, data)
                 => (LogsAndUsersKept
                        /\ RelayedToOthers(s, currentRoom[s], "cursor_update", data))

\* C18: draw_start, draw_move and cursor_move change no log and no presence
\* table, and each is relayed, with the connection id of its sender as userId,
\* to every other participant of the sender's room and not to the sender.
C18_RelayToOthers ==
    [][RelayContract(StartData \cup StartDataWithUserId)]_vars

\* C18 for the payloads Canvas.jsx sends, none of which has a userId field.
RelayOfCanvasPayloads ==
    [][RelayContract(StartData)]_vars

\* A relayed draw_start names a connection that did not send it: it is on the
\* channel of the connection it names.
RelayedUnderOtherId ==
    \E t \in Open : \E i \in 1..Len(chan[t]) :
        chan[t][i].type = "draw_start" /\ chan[t][i].userId = t

\* The rooms whose cursor table has an entry of a connection.
RoomsTracking(s) ==
    {r \in DOMAIN rooms : MapHas(rooms[r].cursors, s)}

\* The user_left the server sends for the leave of s from room r in this
\* step: the record the presence table held, and the participants left.
LeftNotice(s, r) ==
    [type |-> "user_left", userId |-> s,
     user |-> <<rooms[r].users[MapGet(rooms[r].users, s)].value>>,
     users |-> IF HasRoom(rooms', r) THEN MapValues(rooms'[r].users) ELSE << >>]

\* What the disconnect of a joined connection s does in one step to its
\* current room and to the channels.
LeaveOfCurrentRoom(s) ==
    LET r == currentRoom[s]
        notice == LeftNotice(s, r)
    IN /\ \A i \in 1..Len(notice.users) : notice.users[i].userId # s
       /\ \A t \in Sockets \ {s} :
             chan'[t] = IF t \in Participants(r)
                        THEN Append(chan[t], notice)
                        ELSE chan[t]
       /\ Members(r) = {s} => ~HasRoom(rooms', r)
       /\ HasRoom(rooms', r)
             => (~MapHas(rooms'[r].users, s) /\ ~MapHas(rooms'[r].cursors, s))

\* C19: once the disconnect of a participant is processed its connection id
\* is in no presence table and no cursor table; the disconnect sends every
\* remaining participant of its room one user_left with the leaver's record
\* and a participant list without the leaver; and the room of a last
\* participant is gone with its log.
C19_LeaveEvicts ==
    [][\A s \in Sockets :
          (status[s] = "open" /\ currentRoom[s] # Null /\ Disconnect(s))
          => /\ LeaveOfCurrentRoom(s)
             /\ \A r \in DOMAIN rooms' :
                   ~MapHas(rooms'[r].users, s) /\ ~MapHas(rooms'[r].cursors, s)
      ]_vars

\* The part of C19 that holds: the disconnect evicts the connection from the
\* room it joined last and notifies that room.
LeaveOfLastJoinedRoom ==
    [][\A s \in Sockets :
          (status[s] = "open" /\ currentRoom[s] # Null /\ Disconnect(s))
          => LeaveOfCurrentRoom(s)
      ]_vars

\* A closed connection is still listed in a presence table.
ListedAfterLeave ==
    \E s \in Sockets : status[s] = "closed" /\ RoomsListing(s) # {}

\* The operation a processed draw_end makes of payload data sent by s.
Committed(op, s, data) ==
    /\ op.userId = s /\ op.type = "draw"
    /\ op.points = data.points /\ op.color = data.color
    /\ op.width = data.width /\ op.tool = data.tool

\* C20: the server keeps no stroke in progress. draw_start and draw_move
\* leave the registry as it is, a disconnect adds nothing to any log and
\* leaves the log of every room that survives it unchanged, whatever the
\* leaver had announced; every operation a step adds to a log is the whole
\* payload of the draw_end processed in that step; and every operation in a
\* log is such a payload under the id of one of the commits processed.
C20_NoPartialCommit ==
    [][ /\ \A s \in Sockets :
              /\ \A data \in StartData \cup StartDataWithUserId :
                    DrawStart(s, data) => rooms' = rooms
              /\ \A data \in MoveData : DrawMove(s, data) => rooms' = rooms
              /\ (status[s] = "open" /\ Disconnect(s))
                    => /\ DOMAIN rooms' \subseteq DOMAIN rooms
                       /\ \A r \in DOMAIN rooms' :
                             rooms'[r].operations = rooms[r].operations
        /\ \A r \in DOMAIN rooms' : \A i \in 1..Len(rooms'[r].operations) :
              LET op == rooms'[r].operations[i]
              IN /\ op.id \in 1..operationIdCounter'
                 /\ \E s \in Sockets, data \in Drafts : Committed(op, s, data)
                 /\ ~Occurs(Log(r), op)
                       => \E s \in Sockets, data \in Drafts :
                             /\ currentRoom[s] = r
                             /\ DrawEnd(s, data)
                             /\ Committed(op, s, data)
                             /\ operationIdCounter' = operationIdCounter + 1
                             /\ op.id = operationIdCounter'
      ]_vars

\* A participant announced a stroke, traced it and disconnected without
\* draw_end: the other participant has the draw_start, the draw_move and the
\* user_left of the leaver in flight, in that order, and the log of the room
\* is the one commit that participant has already been shown.
C20_Witness ==
    \E s \in Sockets, t \in Open :
        /\ status[s] = "closed" /\ currentRoom[s] = currentRoom[t]
        /\ Len(chan[t]) = 3
        /\ chan[t][1].type = "draw_start" /\ chan[t][1].userId = s
        /\ chan[t][2].type = "draw_move" /\ chan[t][2].userId = s
        /\ chan[t][3].type = "user_left" /\ chan[t][3].userId = s
        /\ Len(operations[t]) = 1
        /\ Log(currentRoom[t]) = operations[t]

----------------------------------------------------------------------------
\* C21: a connection's channel is Disconnected, then Joined, alternates
\* between Joined and Drawing (draw_start enters Drawing, draw_end leaves it)
\* and ends Disconnected; a stroke is committed only by a draw_end received
\* in Drawing, and a draw_end received in Joined commits nothing.  Under
\* SpecLog no client ever sends draw_start, so no channel is ever in Drawing
\* and every draw_end of a joined connection is received in Joined: no such
\* step may add to a log.
C21_CommitOnlyWhileDrawing ==
    [][\A s \in Sockets :
          (currentRoom[s] # Null /\ DrawEnd(s, DraftOf(s)) /\ UNCHANGED canvasVars /\ UNCHANGED statusVars)
              => /\ operationIdCounter' = operationIdCounter
                 /\ \A roomId \in RoomIds : Log(roomId)' = Log(roomId)]_vars

----------------------------------------------------------------------------
\* The record s has in the presence table of room r.
UserOf(rs, r, s) == rs[r].users[MapGet(rs[r].users, s)].value

\* The step is the processing of a join_room.
JoinStep == \E s \in Sockets, roomId \in RoomIds, username \in Usernames :
                JoinRoom(s, roomId, username)

\* C27: colours go round the palette by a process-wide counter.  The counter
\* starts at 0 and moves only when a join_room is processed, by one, whatever
\* the room and also after rooms have been destroyed, so before the k-th join
\* it is k-1; the join processed then gives the joiner palette entry
\* (k-1) mod 15 (USER_COLORS is indexed from 1 here).
C27_RoundRobinColors ==
    [][/\ IF JoinStep THEN colorIndex' = colorIndex + 1 ELSE colorIndex' = colorIndex
       /\ \A s \in Sockets, roomId \in RoomIds, username \in Usernames :
             JoinRoom(s, roomId, username)
                 => UserOf(rooms', roomId, s).color = USER_COLORS[(colorIndex % 15) + 1]]_vars

\* Seventeen joins have been processed, all of the first connection and its
\* successors while the second has not connected yet: each of them was alone
\* in its room, so the room was destroyed each time it left, and the joiner of
\* the seventeenth has the second colour of the palette.
C27_Witness ==
    /\ colorIndex = 17
    /\ status[SocketOrder[2]] = "fresh"
    /\ \E r \in RoomIds :
          /\ Members(r) = {SocketOrder[1]}
          /\ UserOf(rooms, r, SocketOrder[1]).color = USER_COLORS[2]

----------------------------------------------------------------------------
\* C28: a join_room with no username (the empty string: `username ||`) names
\* the participant "User<N>", N being the size of the room's presence table
\* before the join plus 1; any other username, one of white space included,
\* is stored as sent; nothing keeps the names of a room distinct.
C28_DefaultName ==
    [][\A s \in Sockets, roomId \in RoomIds, username \in Usernames :
          JoinRoom(s, roomId, username)
              => UserOf(rooms', roomId, s).username =
                     IF username = ""
                     THEN "User" \o ToString(Cardinality(Members(roomId)) + 1)
                     ELSE username]_vars

\* Two participants of one room both named "User2": the second of two
\* unnamed joiners, and an unnamed joiner that came after the first had left.
C28_Witness ==
    \E r \in RoomIds :
        /\ Members(r) = Sockets
        /\ \A s \in Sockets : UserOf(rooms, r, s).username = "User2"

----------------------------------------------------------------------------
\* C26: the colour a participant was given at its join stays the same until
\* it disconnects: no step, whatever event it processes, changes the colour
\* in the record of a connection that is in a room's presence table before
\* and after the step.
C26_ColorStable ==
    [][\A s \in Sockets, r \in RoomIds :
          (s \in Members(r) /\ s \in Members(r)')
              => UserOf(rooms', r, s).color = UserOf(rooms, r, s).color]_vars

----------------------------------------------------------------------------
\* getRoomStats counting the cursors of a room for its participants.
getRoomStats_cursors(rs) ==
    [totalRooms |-> Cardinality(DOMAIN rs),
     rooms |-> {[roomId |-> r,
                 userCount |-> Len(rs[r].cursors),
                 operationCount |-> Len(rs[r].operations)] : r \in DOMAIN rs}]

\* rooms.js getRoomStats, as GET /health returns it; the entries of `rooms`
\* are kept as a set (the registry keeps no order of insertion here).
getRoomStats(rs) ==
    [totalRooms |-> Cardinality(DOMAIN rs),
     rooms |-> {[roomId |-> r,
                 userCount |-> Len(rs[r].users),
                 operationCount |-> Len(rs[r].operations)] : r \in DOMAIN rs}]

\* C30: the stats report as many rooms as the registry holds, one entry for
\* each of them and for nothing else, with the number of participants in its
\* presence table and the number of operations in its log.
C30_StatsMatchRegistry ==
    LET stats == getRoomStats(rooms)
        Existing == {r \in RoomIds : HasRoom(rooms, r)}
    IN /\ stats.totalRooms = Cardinality(Existing)
       /\ {e.roomId : e \in stats.rooms} = Existing
       /\ Cardinality(stats.rooms) = Cardinality(Existing)
       /\ \A e \in stats.rooms :
             /\ e.userCount = Cardinality(Members(e.roomId))
             /\ e.operationCount = Len(Log(e.roomId))

\* Two rooms whose counts differ: one with both connections and an operation,
\* one with a single participant and an empty log.
C30_Witness ==
    /\ getRoomStats(rooms).totalRooms = 2
    /\ \E e, f \in getRoomStats(rooms).rooms :
          /\ e.userCount = 2 /\ e.operationCount >= 1
          /\ f.userCount = 1 /\ f.operationCount = 0

----------------------------------------------------------------------------
\* The mark a stroke leaves on a canvas.
MarkOf(points, color, width, tool) == drawStroke(<< >>, points, color, width, tool)[1]

\* The operations of s, one mark each in the order of the list, then the
\* stroke s is drawing if it is drawing one that has points.
ViewOf(ops, drawing, path, tools) ==
    [i \in 1..Len(ops) |-> MarkOf(ops[i].points, ops[i].color, ops[i].width, ops[i].tool)]
        \o (IF drawing /\ Len(path) > 0
            THEN <<MarkOf(path, tools.color, tools.width, tools.tool)>>
            ELSE << >>)

AuthoritativeEvents == {"full_sync", "operation_added", "operation_removed"}

\* C24: when a client has processed a full_sync, operation_added or
\* operation_removed, its canvas shows the operations of its list in list
\* order, followed by its current path exactly if it is drawing a stroke
\* with points; the event leaves the stroke in progress as it was (not
\* dropped) and adds nothing to any log (not committed).
C24_ViewAfterAuthoritativeEvent ==
    [][\A s \in Sockets :
          (Deliver(s) /\ Head(chan[s]).type \in AuthoritativeEvents)
              => /\ canvas'[s] = ViewOf(operations'[s], isDrawing'[s], currentPath'[s],
                                        ToolsOf(s))
                 /\ isDrawing'[s] = isDrawing[s]
                 /\ currentPath'[s] = currentPath[s]
                 /\ rooms' = rooms]_vars

\* A client drawing a stroke has taken in the operation another client
\* committed meanwhile (that client's own copy is still on its way, and no
\* stroke starts while a message is in flight): both are on its canvas.
C24_Witness ==
    \E s, t \in Sockets :
        /\ s # t
        /\ isDrawing[s] /\ Len(currentPath[s]) > 0
        /\ Len(operations[s]) > 0
        /\ Len(chan[t]) > 0
        /\ Head(chan[t]).type = "operation_added"
        /\ Head(chan[t]).operation = operations[s][Len(operations[s])]
        /\ Len(canvas[s]) = Len(operations[s]) + 1
        /\ canvas[s][Len(canvas[s])].points = currentPath[s]

----------------------------------------------------------------------------
\* C25: redrawCanvas is idempotent: applied a second time to the same list
\* of operations it leaves the canvas as the first application left it,
\* whatever the canvas held before the first.  The lists are those the clients
\* hold and the canvases those they show, in every reachable state.
C25_RedrawIdempotent ==
    \A s, t \in Sockets :
        redrawCanvas(redrawCanvas(canvas[t], operations[s]), operations[s])
            = redrawCanvas(canvas[t], operations[s])

\* A canvas that holds marks, other than those a redraw of a list of two or
\* more operations leaves on it.
C25_Witness ==
    \E s, t \in Sockets :
        /\ Len(operations[s]) >= 2
        /\ canvas[t] # << >>
        /\ canvas[t] # redrawCanvas(canvas[t], operations[s])
        /\ Len(redrawCanvas(canvas[t], operations[s])) = Len(operations[s])

----------------------------------------------------------------------------
\* The operation_added messages on their way to s that carry a stroke of s.
OwnEchoes(s) ==
    {chan[s][i].operation : i \in {j \in 1..Len(chan[s]) :
                                      /\ chan[s][j].type = "operation_added"
                                      /\ chan[s][j].operation.userId = s}}

\* The canvas of s shows the stroke of op.
Shows(cv, op) ==
    \E i \in 1..Len(cv) : cv[i] = MarkOf(op.points, op.color, op.width, op.tool)

\* C23: from the draw_end of a stroke until the client's own operation_added
\* for it arrives, the client's canvas still shows the finished stroke; and
\* when that operation_added is handled the canvas does not change.
C23_FinishedStrokeStaysVisible ==
    /\ [](\A s \in Sockets : \A op \in OwnEchoes(s) : Shows(canvas[s], op))
    /\ [][\A s \in Sockets :
             (Deliver(s) /\ Head(chan[s]).type = "operation_added"
                         /\ Head(chan[s]).operation.userId = s)
                 => canvas'[s] = canvas[s]]_vars

----------------------------------------------------------------------------
\* The operations of a log, as a set.
LogSet(r) == {Log(r)[i] : i \in 1..Len(Log(r))}

\* The step is an undo that takes op off the end of the log of r.
UndoneBy(op, r) ==
    /\ \E s \in Sockets : currentRoom[s] = r /\ Undo(s)
    /\ op = Log(r)[Len(Log(r))]

\* C29: an operation in a log is immutable.  The stroke a client ends is
\* committed with the points of its current path, all of them and in order,
\* and the client's colour, width and tool; every operation of a log is in
\* the log after any step with the same id, author, points, colour, width and
\* tool, unless the step is the undo that removes it from the end of the log
\* or destroys the room; and a step adds to a log nothing but the stroke it
\* commits.
C29_OperationImmutable ==
    [][/\ \A s \in Sockets :
             (isDrawing[s] /\ Len(currentPath[s]) > 0 /\ currentRoom[s] # Null
                           /\ ~isDrawing'[s] /\ HandleDrawEnd(s))
                 => LET op == Log(currentRoom[s])'[Len(Log(currentRoom[s])')]
                    IN /\ op.id = operationIdCounter + 1
                       /\ op.userId = s
                       /\ op.points = currentPath[s]
                       /\ op.color = ToolsOf(s).color
                       /\ op.width = ToolsOf(s).width
                       /\ op.tool = ToolsOf(s).tool
       /\ \A r \in RoomIds :
             /\ \A op \in LogSet(r) :
                   \/ op \in LogSet(r)'
                   \/ UndoneBy(op, r)
                   \/ ~HasRoom(rooms', r)
             /\ \A op \in LogSet(r)' :
                   \/ op \in LogSet(r)
                   \/ /\ op.id = operationIdCounter + 1
                      /\ \E s \in Sockets : HandleDrawEnd(s) /\ currentRoom[s] = r
             /\ \A op \in LogSet(r), op2 \in LogSet(r)' :
                   op.id = op2.id => op = op2]_vars

\* A stroke of two points is in a log, whole, below an operation committed
\* after it.
C29_Witness ==
    \E r \in RoomIds :
        /\ Len(Log(r)) >= 2
        /\ Log(r)[1].points = <<Point(0, 0), Point(10, 10)>>

----------------------------------------------------------------------------
\* The client s is in a room again and has caught up with its log.
Resynced(s) ==
    /\ status[s] = "open"
    /\ currentRoom[s] # Null
    /\ chan[s] = << >>
    /\ operations[s] = Log(currentRoom[s])

\* C22: a joined client whose channel has been lost is, once the transport
\* has reconnected, eventually back in its room with a fresh full_sync
\* handled and its operations list equal to the server's log again.
C22_RejoinAfterReconnect ==
    \A s \in Sockets : (status[s] = "lost" /\ hasJoined[s]) ~> Resynced(s)

----------------------------------------------------------------------------
\* The step is the server's handling of one of the five events from s.
StrokeOrCursorEvent(s) ==
    \/ \E data \in StartData : DrawStart(s, data)
    \/ \E data \in MoveData : DrawMove(s, data)
    \/ \E data \in Drafts : DrawEnd(s, data)
    \/ Undo(s)
    \/ \E data \in CursorData : CursorMove(s, data)

\* C35: draw_start, draw_move, draw_end, undo and cursor_move from a
\* connection that has not joined a room change no room, no log and no
\* presence table, advance no counter and put no message on any channel.
C35_EventsBeforeJoinIgnored ==
    [][\A s \in Sockets :
          (status[s] = "open" /\ currentRoom[s] = Null /\ StrokeOrCursorEvent(s))
              => UNCHANGED << rooms, colorIndex, operationIdCounter, sioRooms, chan,
                              currentRoom >>]_vars

\* A connection that has not joined is open beside a room that has a
\* participant and a log: its events would have something to change.
C35_Witness ==
    \E s, t \in Sockets, r \in RoomIds :
        /\ status[s] = "open" /\ currentRoom[s] = Null
        /\ status[t] = "open" /\ currentRoom[t] = r
        /\ Len(Log(r)) > 0

----------------------------------------------------------------------------
\* The cursor table of room r.
Cursors(r) == IF HasRoom(rooms, r) THEN rooms[r].cursors ELSE << >>

\* The entries s has in a cursor table.
EntriesOf(m, s) == {i \in 1..Len(m) : m[i].key = s}

\* C36: the keys of a room's cursor table are ids in the room's presence
\* table, in every state; a cursor_move of a joined connection leaves the
\* sender with one entry in its room's table, holding the position just
\* sent, and every other entry as it was; and the step that takes an id out
\* of a presence table takes its cursor entry out with it.
C36_CursorsOfParticipants ==
    /\ [](\A r \in RoomIds : MapKeys(Cursors(r)) \subseteq Members(r))
    /\ [][/\ \A s \in Sockets, data \in CursorData :
                (currentRoom[s] # Null /\ CursorMove(s, data))
                    => LET m == Cursors(currentRoom[s])'
                       IN /\ Cardinality(EntriesOf(m, s)) = 1
                          /\ \A i \in EntriesOf(m, s) :
                                m[i].value = [x |-> data.x, y |-> data.y]
                          /\ \A t \in Sockets \ {s}, r \in RoomIds :
                                {Cursors(r)'[i] : i \in EntriesOf(Cursors(r)', t)}
                                    = {Cursors(r)[i] : i \in EntriesOf(Cursors(r), t)}
       /\ \A s \in Sockets, r \in RoomIds :
             (s \in Members(r) /\ s \notin Members(r)')
                 => EntriesOf(Cursors(r)', s) = {}]_vars

\* Two participants of a room with a cursor entry each, one of them holding
\* the second position, after three joins (one connection has sent join_room
\* again).
C36_Witness ==
    \E s, t \in Sockets, r \in RoomIds :
        /\ s # t
        /\ Members(r) = {s, t}
        /\ MapKeys(Cursors(r)) = {s, t}
        /\ \E i \in EntriesOf(Cursors(r), s) : Cursors(r)[i].value = Point(2, 2)
        /\ colorIndex >= 3

----------------------------------------------------------------------------
RECURSIVE IsSubsequence(_, _)
\* sub is seq with some of its elements left out.
IsSubsequence(sub, seq) ==
    IF Len(sub) = 0 THEN TRUE
    ELSE IF Len(seq) = 0 THEN FALSE
    ELSE IF Head(sub) = Head(seq) THEN IsSubsequence(Tail(sub), Tail(seq))
    ELSE IsSubsequence(sub, Tail(seq))

\* The path [(0,0), (1,0.1), (2,-0.1), (10,0)], in tenths of a pixel.
ExamplePath == <<Point(0, 0), Point(10, 1), Point(20, -1), Point(100, 0)>>

\* C31: the result of optimizePath is a subsequence of its input that keeps
\* the first and the last point; an input of at most 2 points comes back
\* unchanged; the example path with tolerance 2 gives its two end points;
\* and the result is a function of the input and the tolerance.
C31_SimplifiedPath ==
    LET points == optimizePathCall.points
        result == optimizePathCall.result
    IN /\ IsSubsequence(result, points)
       /\ Len(points) >= 1 => /\ Len(result) >= 1
                              /\ result[1] = points[1]
                              /\ result[Len(result)] = points[Len(points)]
       /\ Len(points) <= 2 => result = points
       /\ (points = ExamplePath /\ optimizePathCall.tolerance = 20)
             => result = <<Point(0, 0), Point(100, 0)>>
       /\ result = optimizePath(points, optimizePathCall.tolerance)

\* The example has been simplified.
C31_Witness ==
    /\ optimizePathCall.points = ExamplePath
    /\ optimizePathCall.tolerance = 20
    /\ optimizePathCall.result = <<Point(0, 0), Point(100, 0)>>

----------------------------------------------------------------------------
\* Squares of distances from p, times LineScale(a, b): to the line through a
\* and b (the perpendicular distance), and to the segment from a to b (the
\* perpendicular distance where the foot of the perpendicular lies on the
\* segment, the distance to the nearer end point elsewhere).
ToPoint(p, a) == Sq(p.x - a.x) + Sq(p.y - a.y)

Cross(p, a, b) == (b.x - a.x) * (p.y - a.y) - (b.y - a.y) * (p.x - a.x)

Along(p, a, b) == (p.x - a.x) * (b.x - a.x) + (p.y - a.y) * (b.y - a.y)

ToLine(p, a, b) == IF a = b THEN ToPoint(p, a) ELSE Sq(Cross(p, a, b))

ToSegment(p, a, b) ==
    IF a = b THEN ToPoint(p, a)
    ELSE IF 0 < Along(p, a, b) /\ Along(p, a, b) < LineScale(a, b)
    THEN Sq(Cross(p, a, b))
    ELSE LineScale(a, b) * (IF ToPoint(p, a) <= ToPoint(p, b)
                            THEN ToPoint(p, a) ELSE ToPoint(p, b))

Interior(points) == 2..(Len(points) - 1)

\* What the call made of its input, for a given measure of the distance of
\* an interior point from the chord: the two end points exactly if no
\* interior point is farther from the chord than the tolerance; otherwise
\* the results for the two halves that share the first interior point of
\* maximum distance, that point being kept once.
SimplifiedBy(Distance(_, _, _)) ==
    LET points == optimizePathCall.points
        tolerance == optimizePathCall.tolerance
        result == optimizePathCall.result
        a == points[1]
        b == points[Len(points)]
        Far == {i \in Interior(points) :
                   Distance(points[i], a, b) > Sq(tolerance) * LineScale(a, b)}
    IN Len(points) > 2 =>
          /\ (result = <<a, b>>) <=> (Far = {})
          /\ Far # {} =>
                LET k == CHOOSE i \in Interior(points) :
                             /\ \A j \in Interior(points) :
                                   Distance(points[j], a, b) <= Distance(points[i], a, b)
                             /\ \A j \in Interior(points) :
                                   j < i => Distance(points[j], a, b)
                                               < Distance(points[i], a, b)
                    left == optimizePath(SubSeq(points, 1, k), tolerance)
                    right == optimizePath(SubSeq(points, k, Len(points)), tolerance)
                IN result = SubSeq(left, 1, Len(left) - 1) \o right

\* C32 as stated: the distance of an interior point is its perpendicular
\* distance from the chord through the two end points.
C32_CollapseByPerpendicularDistance == SimplifiedBy(ToLine)

\* C32: optimizePath collapses a path of more than 2 points to its two end
\* points exactly when no interior point is farther than the tolerance from
\* the chord as a segment (perpendicularDistance clamps the projection to the
\* segment); otherwise it keeps the first interior point of maximum such
\* distance and recurses on the two halves sharing that point.
C32_CollapseBySegmentDistance == SimplifiedBy(ToSegment)

\* A point behind the start of the chord, on its line: its perpendicular
\* distance is 0, its distance from the segment 5 pixels, and it is kept.
C32_Witness ==
    /\ optimizePathCall.points = <<Point(0, 0), Point(-50, 0), Point(100, 0)>>
    /\ optimizePathCall.tolerance = 20
    /\ optimizePathCall.result = <<Point(0, 0), Point(-50, 0), Point(100, 0)>>

----------------------------------------------------------------------------
\* The connections whose join of room r has been processed and that have not
\* left since.
JoinedBefore(r) == {s \in Open : currentRoom[s] = r}

\* The messages the step appends to the channel of s.
NewOn(s) == SubSeq(chan'[s], Len(chan[s]) + 1, Len(chan'[s]))

\* The log messages (operation_added, operation_removed) among msgs.
LogMessages(msgs) ==
    SelectSeq(msgs, LAMBDA m : m.type \in {"operation_added", "operation_removed"})

\* The ids of the operations a sequence holds.
IdsOf(ops) == {ops[i].id : i \in 1..Len(ops)}

\* A step that is a join answers with the operations for which SentInSync
\* holds and with no log message to anyone.
JoinSends(SentInSync(_, _)) ==
    \A s \in Sockets, r \in RoomIds :
          (currentRoom[s] = Null /\ currentRoom'[s] = r /\ JoinRoom(s, r, "ann"))
          => /\ Len(NewOn(s)) > 0
             /\ NewOn(s)[1].type = "full_sync"
             /\ SentInSync(r, NewOn(s)[1].operations)
             /\ \A t \in Sockets : LogMessages(NewOn(t)) = << >>

\* Every operation committed in room r so far, for a room that has a
\* participant: with one room and connections that join once, that
\* participant has been in the room since its first commit, and the ids the
\* counter has handed out are the commits of the room.
CommittedSoFar(r, ops) ==
    JoinedBefore(r) # {} => \A id \in 1..operationIdCounter : id \in IdsOf(ops)

\* The log of the room at the join: the operations committed in it and not
\* undone since, in commit order.
LogAtJoin(r, ops) == ops = Log(r)

\* A commit in room r is sent, in one operation_added, to the connections that
\* joined r before it and to no one else.
CommitsAfterJoin ==
    \A t \in Sockets :
          (status[t] = "open" /\ currentRoom[t] # Null
              /\ operationIdCounter' = operationIdCounter + 1 /\ DrawEnd(t, DraftOf(t)))
          => LET r == currentRoom[t]
                 op == rooms'[r].operations[Len(rooms'[r].operations)]
             IN /\ op.id = operationIdCounter + 1
                /\ \A s \in Sockets :
                      NewOn(s) = IF s \in JoinedBefore(r)
                                 THEN <<[type |-> "operation_added", operation |-> op]>>
                                 ELSE << >>

\* An undo that removes an operation of room r is sent, in one
\* operation_removed, to the connections that joined r before it and to no one
\* else; an undo on an empty log is sent to no one.
UndosAfterJoin ==
    \A t \in Sockets :
          (status[t] = "open" /\ currentRoom[t] # Null /\ Undo(t))
          => LET r == currentRoom[t]
                 ops == Log(r)
             IN \A s \in Sockets :
                   NewOn(s) = IF Len(ops) > 0 /\ s \in JoinedBefore(r)
                              THEN <<[type |-> "operation_removed",
                                      operationId |-> ops[Len(ops)].id]>>
                              ELSE << >>

\* No operation of a full_sync is sent again in an operation_added behind it,
\* and no two operation_added on a channel carry the same operation.
NotSentAgain ==
    \A s \in Sockets :
        \A i, j \in 1..Len(chan[s]) :
            (i < j /\ chan[s][j].type = "operation_added")
            => /\ chan[s][i].type = "full_sync"
                    => chan[s][j].operation.id \notin IdsOf(chan[s][i].operations)
               /\ chan[s][i].type = "operation_added"
                    => chan[s][i].operation.id # chan[s][j].operation.id

\* C33 as stated: every operation committed before a join is in the joiner's
\* full_sync and is not sent to it again; every commit after the join is sent
\* to it once; every undo after the join is sent to it.
C33_JoinConsistency ==
    []NotSentAgain
    /\ [][JoinSends(CommittedSoFar) /\ CommitsAfterJoin /\ UndosAfterJoin]_vars

\* C33: the full_sync of a join holds the log of the room as it is when the
\* join is processed (the operations committed in the room and not undone
\* before the join) and none of them is sent to the joiner again as
\* operation_added; every operation committed after the join is sent to the
\* joiner, while it stays connected, as operation_added exactly once, and
\* every undo that removes an operation after the join as operation_removed
\* exactly once; commits and undos before the join send it nothing.
C33_JoinSeesLogThenUpdates ==
    []NotSentAgain
    /\ [][JoinSends(LogAtJoin) /\ CommitsAfterJoin /\ UndosAfterJoin]_vars

\* Two operations were committed and one of them undone before the second
\* connection joined: its full_sync holds the one left, and the operation
\* committed after its join follows as operation_added.
C33_Witness ==
    \E s \in Open :
        /\ operationIdCounter = 3
        /\ Len(chan[s]) = 3
        /\ chan[s][1].type = "full_sync"
        /\ IdsOf(chan[s][1].operations) = {1}
        /\ chan[s][3].type = "operation_added"
        /\ chan[s][3].operation.id = 3

----------------------------------------------------------------------------
\* The positions of the operation_removed messages on the channel of s.
RemovalsInFlight(s) == {j \in 1..Len(chan[s]) : chan[s][j].type = "operation_removed"}

\* No two operation_removed on their way to one recipient name the same
\* operation.
RemovedOncePerRecipient ==
    \A s \in Open : \A i, j \in RemovalsInFlight(s) :
        i # j => chan[s][i].operationId # chan[s][j].operationId

\* The operation a removal names was sent to its recipient in an
\* operation_added, where the channel still shows everything the recipient
\* was sent since it joined (its full_sync is on it).
AddedBeforeRemoved ==
    \A s \in Open : \A j \in RemovalsInFlight(s) :
        \A i \in SyncsInFlight(s) :
            i < j => \E k \in (i + 1)..(j - 1) :
                        /\ chan[s][k].type = "operation_added"
                        /\ chan[s][k].operation.id = chan[s][j].operationId

\* The operation a removal names is in the recipient's list when the removal
\* is handled: it was sent to the recipient before, in its full_sync or in an
\* operation_added, and no earlier removal named it.
HeldWhenRemoved ==
    \A s \in Open : \A j \in RemovalsInFlight(s) :
        chan[s][j].operationId
            \in IdsOf(Replay(operations[s], SubSeq(chan[s], 1, j - 1)))

\* Two undo events processed one after the other, as the server processes the
\* undos two participants sent at the same time: together they take the last
\* min(2, log length) operations off the log, the last one first.
TwoUndosTakeTheTail ==
    \A r \in DOMAIN rooms :
        LET ops == Log(r)
            n == Len(ops)
            u1 == undoOperation(rooms, r)
            u2 == undoOperation(u1.rooms, r)
            taken == u1.operation \o u2.operation
        IN /\ Len(taken) = (IF n < 2 THEN n ELSE 2)
           /\ u2.rooms[r].operations = SubSeq(ops, 1, n - Len(taken))
           /\ \A i \in 1..Len(taken) : taken[i] = ops[n + 1 - i]
           /\ Len(taken) = 2 => taken[1].id # taken[2].id
           /\ u2.rooms = [rooms EXCEPT ![r].operations = u2.rooms[r].operations]

\* C34 as stated: an operation id is in at most one operation_removed per
\* recipient, and only after the operation_added for that id was sent to that
\* recipient; two undos take min(2, log length) distinct operations off the
\* tail.
C34_RemovedOnceAfterAdded ==
    RemovedOncePerRecipient /\ AddedBeforeRemoved /\ TwoUndosTakeTheTail

\* C34: an operation id is in at most one operation_removed per recipient, and
\* only after that operation was sent to that recipient, in an operation_added
\* or in the full_sync of its join; two undos processed one after the other
\* take min(2, log length) distinct operations off the tail of the log, never
\* the same operation twice.
C34_RemovedOnceAfterSent ==
    RemovedOncePerRecipient /\ HeldWhenRemoved /\ TwoUndosTakeTheTail

\* Two undos were processed before either removal was handled: the removals
\* of operations 2 and 1 are on their way to a participant, in that order,
\* and the log is empty.
C34_Witness ==
    \E s \in Open :
        /\ currentRoom[s] # Null
        /\ Log(currentRoom[s]) = << >>
        /\ Len(chan[s]) >= 2
        /\ chan[s][Len(chan[s]) - 1] = [type |-> "operation_removed", operationId |-> 2]
        /\ chan[s][Len(chan[s])] = [type |-> "operation_removed", operationId |-> 1]

\* A participant that joined after operation 1 was committed is sent its
\* removal: it had the operation from its full_sync, not from an
\* operation_added.
RemovedAfterSync ==
    \E s \in Open :
        /\ Len(chan[s]) = 3
        /\ chan[s][1].type = "full_sync"
        /\ IdsOf(chan[s][1].operations) = {1}
        /\ chan[s][3] = [type |-> "operation_removed", operationId |-> 1]

----------------------------------------------------------------------------
\* The client of s is in ActiveStroke (between a stroke's start and its end),
\* Idle otherwise.
ActiveStroke(s) == isDrawing[s]

\* The step relays a message of the given event from s to somebody.
Relayed(s, event) ==
    \E t \in Sockets : \E i \in 1..Len(NewOn(t)) :
        NewOn(t)[i].type = event /\ NewOn(t)[i].userId = s

\* The step commits a draw_end of s: the log of its room gains an operation
\* authored by s.
EndCommitted(s) ==
    /\ operationIdCounter' = operationIdCounter + 1
    /\ \E r \in RoomIds :
          /\ HasRoom(rooms', r)
          /\ Len(Log(r)') = Len(Log(r)) + 1
          /\ Log(r)'[Len(Log(r)')].userId = s

\* The operation the step commits.
NewOperation ==
    LET r == CHOOSE r \in RoomIds : HasRoom(rooms', r) /\ Len(Log(r)') = Len(Log(r)) + 1
    IN rooms'[r].operations[Len(rooms'[r].operations)]

\* The path of a stroke in progress starts with the point of its draw_start
\* and is empty between strokes.
PathOfStroke ==
    \A s \in Sockets :
        IF ActiveStroke(s)
        THEN Len(currentPath[s]) > 0 /\ currentPath[s][1] \in StartPoints
        ELSE currentPath[s] = << >>

\* C37: the drawing client is Idle or in ActiveStroke. A draw_start puts it in
\* ActiveStroke with the path holding the start point; draw_move is emitted
\* only in ActiveStroke and keeps it there; a draw_end is emitted only in
\* ActiveStroke, carries the path (not empty, starting with the point of the
\* draw_start) and returns the client to Idle, so that a draw_start is
\* followed by at most one draw_end; pointer moves and end-of-stroke input in
\* Idle emit nothing and change nothing. A stroke in progress when the
\* connection closes is dropped without a draw_end.
C37_StrokeLifecycle ==
    /\ []PathOfStroke
    /\ [][\A s \in Sockets :
             /\ \A point \in StartPoints :
                   HandleDrawStart(s, point)
                   => /\ ActiveStroke(s)'
                      /\ currentPath'[s] = <<point>>
                      /\ \A t \in Participants(currentRoom[s]) \ {s} :
                            /\ Len(NewOn(t)) = 1
                            /\ NewOn(t)[1].type = "draw_start"
                            /\ NewOn(t)[1].x = point.x /\ NewOn(t)[1].y = point.y
             /\ (~ActiveStroke(s) /\ ActiveStroke(s)')
                   => \E point \in StartPoints : HandleDrawStart(s, point)
             /\ Relayed(s, "draw_move")
                   => /\ ActiveStroke(s) /\ ActiveStroke(s)'
                      /\ Len(currentPath'[s]) = Len(currentPath[s]) + 1
                      /\ SubSeq(currentPath'[s], 1, Len(currentPath[s])) = currentPath[s]
             /\ \A point \in MovePoints :
                   (~ActiveStroke(s) /\ HandleDrawMove(s, point)) => UNCHANGED vars
             /\ (ActiveStroke(s) /\ ActiveStroke(s)' /\ currentPath'[s] # currentPath[s])
                   => \/ \E point \in StartPoints : HandleDrawStart(s, point)
                      \/ \E point \in MovePoints :
                            /\ HandleDrawMove(s, point)
                            /\ currentPath'[s] = Append(currentPath[s], point)
             /\ EndCommitted(s)
                   => /\ ActiveStroke(s) /\ ~ActiveStroke(s)'
                      /\ HandleDrawEnd(s)
                      /\ NewOperation.points = currentPath[s]
                      /\ Len(NewOperation.points) > 0
                      /\ NewOperation.points[1] \in StartPoints
             /\ (~ActiveStroke(s) /\ HandleDrawEnd(s)) => UNCHANGED vars
             /\ (ActiveStroke(s) /\ ~ActiveStroke(s)')
                   => /\ HandleDrawEnd(s) \/ status'[s] # "open"
                      /\ currentPath'[s] = << >>
         ]_vars

\* One participant has finished a stroke of two points, which is the log, and
\* is Idle again; the other is in the middle of a stroke of its own.
C37_Witness ==
    \E s, t \in Open :
        /\ s # t
        /\ ~ActiveStroke(s) /\ currentPath[s] = << >>
        /\ Len(Log("r1")) = 1
        /\ Log("r1")[1].userId = s
        /\ Len(Log("r1")[1].points) = 2
        /\ Log("r1")[1].points[1] \in StartPoints
        /\ ActiveStroke(t) /\ Len(currentPath[t]) = 2

----------------------------------------------------------------------------
\* C38: when the socket of s connects, App's connection_status listener is
\* eventually called with connected = true, so that `connected` becomes true
\* (unless the connection has ended by then); when the socket disconnects
\* under a client that stays, it is called with connected = false.
C38_ConnectionStatusReported ==
    \A s \in Sockets :
        /\ (status[s] = "open") ~> (connected[s] \/ status[s] # "open")
        /\ (status[s] = "lost") ~> (~connected[s] \/ status[s] # "lost")

\* The `connected` flag of every App is false, whatever its socket's state.
NeverReportedConnected == \A s \in Sockets : ~connected[s]

\* A client has joined and has its history while its App still shows
\* `connected` false.
JoinedButNotConnected ==
    \E s \in Open : hasJoined[s] /\ chan[s] = << >> /\ ~connected[s]

====
